---------------------------- MODULE Spec2Model ----------------------------
(***************************************************************************)
(* A model of the decision, parsing and calibration core of saxsabs:      *)
(*   core/execution_policy.py   RunPolicy, should_skip_all_existing        *)
(*   core/preflight.py          evaluate_preflight_gate                    *)
(*   core/normalization.py      compute_norm_factor (and the workbench's   *)
(*                              own copy in SASAbs.py)                     *)
(*   io/parsers.py              parse_header_values and its helpers, the   *)
(*                              readers of 1-D profiles                    *)
(*   io/writers.py              write_cansas1d_xml, write_nxcansas_h5      *)
(*   constants.py               the registry of reference standards        *)
(*   core/calibration.py        estimate_k_factor_robust                   *)
(*   core/buffer_subtraction.py subtract_buffer                            *)
(*   core/mu_calculator.py      parse_composition_string                   *)
(*   SASAbs.py                  the fallback run policy, the output stems, *)
(*                              run_calibration and run_batch              *)
(*                                                                         *)
(* The state machine records one call at a time: op is the function        *)
(* called ("idle" between calls), args its arguments and ret what it       *)
(* returned (or the exception it raised).  heap holds the arrays of the    *)
(* process and held those the caller refers to; disk is the file at the    *)
(* path the readers and writers are given (for the workbench's batch, the  *)
(* set of output files), and app holds the workbench's variables.  Each    *)
(* component has a specification of its own (SpecPolicy, SpecPreflight,    *)
(* SpecNorm, SpecHeader, SpecTrans, SpecReference, SpecRegistry,           *)
(* SpecCalibration, SpecReaders, SpecFormats, SpecBuffer, SpecComposition, *)
(* SpecFallback, SpecStems, SpecSolidAngle, SpecBatch) whose Next applies  *)
(* the component's functions to inputs drawn from bounded sets.            *)
(*                                                                         *)
(* Python floats are modelled as exact rationals (a numerator and a        *)
(* positive denominator in lowest terms) plus the special values None,     *)
(* NaN, +inf and -inf; rounding is not modelled.  Python strings that the  *)
(* code inspects character by character are sequences of one-character    *)
(* strings.                                                                *)
(***************************************************************************)
EXTENDS Integers, Sequences, FiniteSets, TLC

VARIABLES op, args, ret, heap, held, disk, app

vars == <<op, args, ret, heap, held, disk, app>>

\* No call has been made yet.
NoArgs == [none |-> TRUE]

\* There is no file at the path the callers use.
NoFile == [kind |-> "missing"]

(***************************************************************************)
(* The numpy arrays of the process.  heap maps an object id to the array   *)
(* that lives there (alloc is false of an id not in use); held is the set  *)
(* of ids of the arrays the caller has a reference to.  Ids 1 and 2 are    *)
(* q_data and i_data of STANDARD_REGISTRY["SRM3600"], built when           *)
(* constants.py is imported; ids 3 and 4 are two arrays of the caller's    *)
(* own, which it may pass as q_user and i_user.                            *)
(***************************************************************************)

\* The number of object ids.
MaxObjects == 8

\* NIST_SRM3600_DATA, the rows [q, dSigma/dOmega].
NIST_SRM3600_DATA ==
    <<
      \* [0.008, 35.0]
      <<[tag |-> "num", n |-> 1, d |-> 125],
        [tag |-> "num", n |-> 35, d |-> 1]>>,
      \* [0.010, 34.2]
      <<[tag |-> "num", n |-> 1, d |-> 100],
        [tag |-> "num", n |-> 171, d |-> 5]>>,
      \* [0.020, 30.8]
      <<[tag |-> "num", n |-> 1, d |-> 50],
        [tag |-> "num", n |-> 154, d |-> 5]>>,
      \* [0.030, 28.8]
      <<[tag |-> "num", n |-> 3, d |-> 100],
        [tag |-> "num", n |-> 144, d |-> 5]>>,
      \* [0.040, 27.5]
      <<[tag |-> "num", n |-> 1, d |-> 25],
        [tag |-> "num", n |-> 55, d |-> 2]>>,
      \* [0.050, 26.8]
      <<[tag |-> "num", n |-> 1, d |-> 20],
        [tag |-> "num", n |-> 134, d |-> 5]>>,
      \* [0.060, 26.3]
      <<[tag |-> "num", n |-> 3, d |-> 50],
        [tag |-> "num", n |-> 263, d |-> 10]>>,
      \* [0.080, 25.4]
      <<[tag |-> "num", n |-> 2, d |-> 25],
        [tag |-> "num", n |-> 127, d |-> 5]>>,
      \* [0.100, 23.6]
      <<[tag |-> "num", n |-> 1, d |-> 10],
        [tag |-> "num", n |-> 118, d |-> 5]>>,
      \* [0.120, 20.8]
      <<[tag |-> "num", n |-> 3, d |-> 25],
        [tag |-> "num", n |-> 104, d |-> 5]>>,
      \* [0.150, 15.8]
      <<[tag |-> "num", n |-> 3, d |-> 20],
        [tag |-> "num", n |-> 79, d |-> 5]>>,
      \* [0.180, 10.9]
      <<[tag |-> "num", n |-> 9, d |-> 50],
        [tag |-> "num", n |-> 109, d |-> 10]>>,
      \* [0.200, 8.4]
      <<[tag |-> "num", n |-> 1, d |-> 5],
        [tag |-> "num", n |-> 42, d |-> 5]>>,
      \* [0.220, 6.5]
      <<[tag |-> "num", n |-> 11, d |-> 50],
        [tag |-> "num", n |-> 13, d |-> 2]>>,
      \* [0.250, 4.2]
      <<[tag |-> "num", n |-> 1, d |-> 4],
        [tag |-> "num", n |-> 21, d |-> 5]>>
    >>

\* NIST_SRM3600_DATA[:, c].copy() (c counted from 1).
Column(data, c) == [r \in 1..Len(data) |-> data[r][c]]

NoObject == [alloc |-> FALSE, dtype |-> "", data |-> <<>>]

NdArray(dtype, data) == [alloc |-> TRUE, dtype |-> dtype, data |-> data]

SRM3600_q_data == 1
SRM3600_i_data == 2

\* The caller's own arrays: np.linspace(0.01, 0.02, 2) and an int64 array
\* [42, 42].
CallerArrays ==
    [id \in {3, 4} |->
        IF id = 3
            THEN NdArray("float64", <<[tag |-> "num", n |-> 1, d |-> 100],
                                      [tag |-> "num", n |-> 1, d |-> 50]>>)
            ELSE NdArray("int64", <<[tag |-> "num", n |-> 42, d |-> 1],
                                    [tag |-> "num", n |-> 42, d |-> 1]>>)]

\* The heap once constants.py is imported.
ImportedHeap ==
    [id \in 1..MaxObjects |->
        IF id = SRM3600_q_data THEN NdArray("float64", Column(NIST_SRM3600_DATA, 1))
        ELSE IF id = SRM3600_i_data THEN NdArray("float64", Column(NIST_SRM3600_DATA, 2))
        ELSE IF id \in DOMAIN CallerArrays THEN CallerArrays[id]
        ELSE NoObject]

\* The variables of the workbench that the K factor goes through, as
\* SAXSAbsWorkbenchApp.__init__ sets them (SASAbs.py, lines 963-972): the K
\* factor (a whole number here), the solid-angle state recorded with it and
\* the solid-angle check box.
NewApp == [k_factor |-> 1, k_solid_angle |-> "unknown", apply_solid_angle |-> TRUE]

Idle ==
    /\ op = "idle"
    /\ args = NoArgs
    /\ ret = NoArgs
    /\ heap = ImportedHeap
    /\ held = DOMAIN CallerArrays
    /\ disk = NoFile
    /\ app = NewApp

\* The function has returned and its caller may call again.
Return ==
    /\ op # "idle"
    /\ op' = "idle"
    /\ args' = NoArgs
    /\ ret' = NoArgs
    /\ UNCHANGED <<heap, held, disk, app>>

(***************************************************************************)
(* core/execution_policy.py                                                *)
(***************************************************************************)

\* The longest existing_flags list tried.
MaxFlags == 4

\* RunPolicy: a frozen dataclass of two flags.
RunPolicy(resume_enabled, overwrite_existing) ==
    [resume_enabled |-> resume_enabled, overwrite_existing |-> overwrite_existing]

\* Mutant of RunPolicy_mode: the two tests in the wrong order.
RunPolicy_mode_ResumeFirst(self) ==
    IF self.resume_enabled THEN "resume-skip"
    ELSE IF self.overwrite_existing THEN "overwrite"
    ELSE "always-run"

\* RunPolicy.mode
RunPolicy_mode(self) ==
    IF self.overwrite_existing THEN "overwrite"
    ELSE IF self.resume_enabled THEN "resume-skip"
    ELSE "always-run"

\* Mutant of RunPolicy_should_skip_existing: the overwrite flag is forgotten.
RunPolicy_should_skip_existing_NoOverwrite(self, exists) ==
    exists /\ self.resume_enabled

\* RunPolicy.should_skip_existing
RunPolicy_should_skip_existing(self, exists) ==
    exists /\ self.resume_enabled /\ ~self.overwrite_existing

\* bool() of a flag handed over as an int (Python's True and False are the
\* ints 1 and 0): any non-zero value is true.
PyBool(x) == x # 0

\* parse_run_policy
parse_run_policy(resume_enabled, overwrite_existing) ==
    RunPolicy(PyBool(resume_enabled), PyBool(overwrite_existing))

\* Python's all(): true of the empty sequence, false at the first false item.
RECURSIVE PyAll(_)
PyAll(bools) ==
    IF bools = <<>> THEN TRUE
    ELSE IF ~Head(bools) THEN FALSE
    ELSE PyAll(Tail(bools))

\* Mutant of should_skip_all_existing: the empty-list test is missing.
should_skip_all_existing_NoEmptyTest(existing_flags, policy) ==
    PyAll([i \in 1..Len(existing_flags) |->
              RunPolicy_should_skip_existing(policy, existing_flags[i])])

\* should_skip_all_existing
should_skip_all_existing(existing_flags, policy) ==
    IF existing_flags = <<>> THEN FALSE
    ELSE PyAll([i \in 1..Len(existing_flags) |->
                   RunPolicy_should_skip_existing(policy, existing_flags[i])])

Policies == {RunPolicy(r, o) : r \in BOOLEAN, o \in BOOLEAN}

FlagLists == UNION {[1..n -> BOOLEAN] : n \in 0..MaxFlags}

CallParseRunPolicy ==
    /\ op = "idle"
    /\ UNCHANGED <<heap, held, disk, app>>
    /\ \E r \in 0..2, o \in 0..2 :
            /\ op' = "parse_run_policy"
            /\ args' = [resume_enabled |-> r, overwrite_existing |-> o]
            /\ ret' = parse_run_policy(r, o)

CallMode ==
    /\ op = "idle"
    /\ UNCHANGED <<heap, held, disk, app>>
    /\ \E p \in Policies :
            /\ op' = "mode"
            /\ args' = [policy |-> p]
            /\ ret' = RunPolicy_mode(p)

CallShouldSkipExisting ==
    /\ op = "idle"
    /\ UNCHANGED <<heap, held, disk, app>>
    /\ \E p \in Policies, e \in BOOLEAN :
            /\ op' = "should_skip_existing"
            /\ args' = [policy |-> p, exists |-> e]
            /\ ret' = RunPolicy_should_skip_existing(p, e)

CallShouldSkipAllExisting ==
    /\ op = "idle"
    /\ UNCHANGED <<heap, held, disk, app>>
    /\ \E p \in Policies, fl \in FlagLists :
            /\ op' = "should_skip_all_existing"
            /\ args' = [policy |-> p, existing_flags |-> fl]
            /\ ret' = should_skip_all_existing(fl, p)

NextPolicy ==
    \/ CallParseRunPolicy
    \/ CallMode
    \/ CallShouldSkipExisting
    \/ CallShouldSkipAllExisting
    \/ Return

SpecPolicy == Idle /\ [][NextPolicy]_vars

\* C1: for every combination of the two flags, mode is "overwrite" whenever
\* overwrite_existing is true (also when resume_enabled is true), "resume-skip"
\* when overwrite_existing is false and resume_enabled is true, and
\* "always-run" when both are false.
C1_ModePrecedence ==
    op = "mode" =>
        /\ args.policy.overwrite_existing => ret = "overwrite"
        /\ (~args.policy.overwrite_existing /\ args.policy.resume_enabled)
               => ret = "resume-skip"
        /\ (~args.policy.overwrite_existing /\ ~args.policy.resume_enabled)
               => ret = "always-run"

\* The case C1 singles out: both flags set, and overwrite wins.
C1_Witness ==
    /\ op = "mode"
    /\ args.policy.overwrite_existing
    /\ args.policy.resume_enabled
    /\ ret = "overwrite"

\* C2: should_skip_existing(exists) is true if and only if exists is true,
\* resume_enabled is true and overwrite_existing is false; so it can be true
\* only when the policy's mode is "resume-skip".
C2_SkipExistingIff ==
    op = "should_skip_existing" =>
        /\ ret = TRUE <=> (/\ args.exists = TRUE
                           /\ args.policy.resume_enabled = TRUE
                           /\ args.policy.overwrite_existing = FALSE)
        /\ ret = TRUE => RunPolicy_mode(args.policy) = "resume-skip"

\* An existing output under a resuming, overwriting policy is not skipped.
C2_Witness ==
    /\ op = "should_skip_existing"
    /\ args.exists
    /\ args.policy.resume_enabled
    /\ args.policy.overwrite_existing
    /\ ret = FALSE

\* C3: should_skip_all_existing is true only if existing_flags is non-empty
\* and should_skip_existing holds of every flag in it; the empty list gives
\* False under every policy, and a single False flag gives False.
C3_SkipAllExisting ==
    op = "should_skip_all_existing" =>
        /\ ret = TRUE =>
              /\ Len(args.existing_flags) > 0
              /\ \A i \in 1..Len(args.existing_flags) :
                    /\ args.existing_flags[i]
                    /\ args.policy.resume_enabled
                    /\ ~args.policy.overwrite_existing
        /\ args.existing_flags = <<>> => ret = FALSE
        /\ (\E i \in 1..Len(args.existing_flags) : ~args.existing_flags[i])
              => ret = FALSE

\* The empty list under the one policy that skips existing outputs.
C3_Witness ==
    /\ op = "should_skip_all_existing"
    /\ args.existing_flags = <<>>
    /\ args.policy.resume_enabled
    /\ ~args.policy.overwrite_existing
    /\ ret = FALSE

(***************************************************************************)
(* core/preflight.py                                                       *)
(***************************************************************************)

\* The counts tried run from -MaxNegative (a caller's miscount) up to these.
MaxNegative == 1
MaxTotal == 4
MaxFailed == 2
MaxWarnings == 7
MaxRisky == 3

\* max(0, int(x)) of an int count.
ClampCount(x) == IF x > 0 THEN x ELSE 0

\* max(2, total // 2)
RiskyThreshold(total) == IF total \div 2 > 2 THEN total \div 2 ELSE 2

\* score = failed * 5 + risky * 2 + warnings
PreflightScore(failed, risky, warnings) == failed * 5 + risky * 2 + warnings

\* Mutant of PreflightLevel: the test for a failed file is missing.
PreflightLevel_NoFailedTest(total, failed, warnings, risky, score) ==
    IF total <= 0 THEN "BLOCKED"
    ELSE IF score >= 8 \/ warnings >= 6 \/ risky >= RiskyThreshold(total)
        THEN "CAUTION"
    ELSE IF score > 0 THEN "CAUTION"
    ELSE "READY"

\* Mutant of PreflightLevel: the plain 'score > 0' branch is missing, so only
\* the thresholds raise CAUTION.
PreflightLevel_ThresholdsOnly(total, failed, warnings, risky, score) ==
    IF total <= 0 \/ failed > 0 THEN "BLOCKED"
    ELSE IF score >= 8 \/ warnings >= 6 \/ risky >= RiskyThreshold(total)
        THEN "CAUTION"
    ELSE "READY"

\* The if/elif chain that picks the level.
PreflightLevel(total, failed, warnings, risky, score) ==
    IF total <= 0 \/ failed > 0 THEN "BLOCKED"
    ELSE IF score >= 8 \/ warnings >= 6 \/ risky >= RiskyThreshold(total)
        THEN "CAUTION"
    ELSE IF score > 0 THEN "CAUTION"
    ELSE "READY"

\* evaluate_preflight_gate: returns a PreflightGateSummary.
evaluate_preflight_gate(total_files, failed_files, warning_count, risky_files) ==
    LET total == ClampCount(total_files)
        failed == ClampCount(failed_files)
        warnings == ClampCount(warning_count)
        risky == ClampCount(risky_files)
        score == PreflightScore(failed, risky, warnings)
    IN  [level |-> PreflightLevel(total, failed, warnings, risky, score),
         score |-> score,
         total_files |-> total,
         failed_files |-> failed,
         warning_count |-> warnings,
         risky_files |-> risky]

\* PreflightGateSummary.is_blocked
is_blocked(self) == self.level = "BLOCKED"

CallEvaluatePreflightGate ==
    /\ op = "idle"
    /\ UNCHANGED <<heap, held, disk, app>>
    /\ \E t \in (-MaxNegative)..MaxTotal, f \in (-MaxNegative)..MaxFailed,
               w \in (-MaxNegative)..MaxWarnings, r \in (-MaxNegative)..MaxRisky :
            /\ op' = "evaluate_preflight_gate"
            /\ args' = [total_files |-> t, failed_files |-> f,
                        warning_count |-> w, risky_files |-> r]
            /\ ret' = evaluate_preflight_gate(t, f, w, r)

CallIsBlocked ==
    /\ op = "evaluate_preflight_gate"
    /\ UNCHANGED <<heap, held, disk, app>>
    /\ op' = "is_blocked"
    /\ args' = [summary |-> ret]
    /\ ret' = is_blocked(ret)

NextPreflight ==
    \/ CallEvaluatePreflightGate
    \/ CallIsBlocked
    \/ Return

SpecPreflight == Idle /\ [][NextPreflight]_vars

\* C4 as stated: level is "BLOCKED" for any non-zero failed_files, whatever
\* total_files, warning_count and risky_files are.  Violated: a negative
\* failed_files is clamped to 0 and blocks nothing.
C4_NonZeroFailedBlocks ==
    (op = "evaluate_preflight_gate" /\ args.failed_files # 0)
        => ret.level = "BLOCKED"

\* C4 as amended: level is "BLOCKED" for any positive failed_files, whatever
\* total_files, warning_count and risky_files are.
C4_PositiveFailedBlocks ==
    (op = "evaluate_preflight_gate" /\ args.failed_files > 0)
        => ret.level = "BLOCKED"

\* A failed file blocks a batch that has files and nothing else wrong.
C4_Witness ==
    /\ op = "evaluate_preflight_gate"
    /\ args.failed_files > 0
    /\ args.total_files > 0
    /\ args.warning_count = 0
    /\ args.risky_files = 0
    /\ ret.level = "BLOCKED"

\* The level C5 describes for a score and the counts it is computed from.
C5_Level(total, failed, score) ==
    IF total <= 0 \/ failed > 0 THEN "BLOCKED"
    ELSE IF score > 0 THEN "CAUTION"
    ELSE "READY"

\* C5 as stated: score = 5*failed_files + 2*risky_files + warning_count of the
\* arguments; BLOCKED if total_files <= 0 or a failed file exists, otherwise
\* CAUTION exactly when score > 0, otherwise READY.  Violated: the score is
\* computed from the counts clamped at 0, not from the arguments.
C5_ScoreOfArguments ==
    op = "evaluate_preflight_gate" =>
        LET score == 5 * args.failed_files + 2 * args.risky_files
                         + args.warning_count
        IN  /\ ret.score = score
            /\ ret.level = C5_Level(args.total_files, args.failed_files, score)

\* C5 as amended: with every count first clamped to be at least 0,
\* score = 5*failed + 2*risky + warnings; BLOCKED if total <= 0 or failed > 0,
\* otherwise CAUTION exactly when score > 0, otherwise READY; all-zero counts
\* with total_files > 0 give READY with score 0, and the thresholds
\* (score >= 8, warnings >= 6, risky >= max(2, total // 2)) never change the
\* level that 'score > 0' alone gives.
C5_ScoreOfClampedCounts ==
    op = "evaluate_preflight_gate" =>
        LET nonneg(x) == IF x < 0 THEN 0 ELSE x
            total == nonneg(args.total_files)
            failed == nonneg(args.failed_files)
            warnings == nonneg(args.warning_count)
            risky == nonneg(args.risky_files)
            score == 5 * failed + 2 * risky + warnings
        IN  /\ ret.score = score
            /\ ret.level = C5_Level(total, failed, score)
            /\ ret.level \in {"BLOCKED", "CAUTION", "READY"}
            /\ (total > 0 /\ failed = 0 /\ warnings = 0 /\ risky = 0)
                   => (ret.level = "READY" /\ ret.score = 0)

\* A single warning, below every threshold, still gives CAUTION.
C5_Witness ==
    /\ op = "evaluate_preflight_gate"
    /\ args.total_files > 0
    /\ args.failed_files = 0
    /\ args.risky_files = 0
    /\ args.warning_count = 1
    /\ ret.score = 1
    /\ ret.level = "CAUTION"

(***************************************************************************)
(* Python strings and floats                                               *)
(***************************************************************************)

\* A str the code looks into is a sequence of one-character strings.
UpperLetters ==
    <<"A", "B", "C", "D", "E", "F", "G", "H", "I", "J", "K", "L", "M",
      "N", "O", "P", "Q", "R", "S", "T", "U", "V", "W", "X", "Y", "Z">>

LowerLetters ==
    <<"a", "b", "c", "d", "e", "f", "g", "h", "i", "j", "k", "l", "m",
      "n", "o", "p", "q", "r", "s", "t", "u", "v", "w", "x", "y", "z">>

Whitespace == {" ", "\t", "\n"}

LowerChar(c) ==
    IF \E i \in 1..Len(UpperLetters) : UpperLetters[i] = c
        THEN LowerLetters[CHOOSE i \in 1..Len(UpperLetters) : UpperLetters[i] = c]
        ELSE c

\* str.lower()
StrLower(str) == [i \in 1..Len(str) |-> LowerChar(str[i])]

RECURSIVE StrLStrip(_)
StrLStrip(str) ==
    IF str # <<>> /\ Head(str) \in Whitespace THEN StrLStrip(Tail(str)) ELSE str

RECURSIVE StrRStrip(_)
StrRStrip(str) ==
    IF str # <<>> /\ str[Len(str)] \in Whitespace
        THEN StrRStrip(SubSeq(str, 1, Len(str) - 1))
        ELSE str

\* str.strip()
StrStrip(str) == StrRStrip(StrLStrip(str))

\* A float, or what stands where a float is expected: None, NaN, +inf, -inf,
\* a finite number n/d (d > 0, lowest terms), or an object float() rejects.
None == [tag |-> "none", n |-> 0, d |-> 1]
NaN == [tag |-> "nan", n |-> 0, d |-> 1]
PosInf == [tag |-> "inf", n |-> 0, d |-> 1]
NegInf == [tag |-> "ninf", n |-> 0, d |-> 1]
NotANumber == [tag |-> "object", n |-> 0, d |-> 1]

\* The exception a call ends with instead of a value.
Raised(exception) == [tag |-> exception, n |-> 0, d |-> 1]

Abs(x) == IF x < 0 THEN -x ELSE x

RECURSIVE Gcd(_, _)
Gcd(a, b) == IF b = 0 THEN a ELSE Gcd(b, a % b)

\* The finite float n/d.
Num(n, d) ==
    LET g == Gcd(Abs(n), Abs(d))
        sign == IF d < 0 THEN -1 ELSE 1
    IN  [tag |-> "num", n |-> sign * (n \div g), d |-> sign * (d \div g)]

\* x * y of two finite floats.
Mul(x, y) ==
    LET g1 == Gcd(Abs(x.n), y.d)
        g2 == Gcd(Abs(y.n), x.d)
    IN  Num((x.n \div g1) * (y.n \div g2), (x.d \div g2) * (y.d \div g1))

\* math.isfinite
IsFinite(x) == x.tag = "num"

\* x <= 0 and x > 1 of a finite float.
IsNonPositive(x) == x.n <= 0
ExceedsOne(x) == x.n > x.d

(***************************************************************************)
(* core/normalization.py, and SAXSAbsWorkbenchApp.compute_norm_factor      *)
(***************************************************************************)

\* Finite inputs tried are the halves k/2 for k in -MaxHalves..MaxHalves.
MaxHalves == 3

RATE == <<"r", "a", "t", "e">>
INTEGRATED == <<"i", "n", "t", "e", "g", "r", "a", "t", "e", "d">>

\* MONITOR_NORM_MODES
MONITOR_NORM_MODES == {RATE, INTEGRATED}

\* mode_n = str(mode).strip().lower()
NormalizeMode(mode_s) == StrLower(StrStrip(mode_s))

\* monitor_norm_formula
monitor_norm_formula(mode_s) ==
    LET mode_n == NormalizeMode(mode_s)
    IN  IF mode_n = RATE THEN [raised |-> FALSE, value |-> "exp * I0 * T"]
        ELSE IF mode_n = INTEGRATED THEN [raised |-> FALSE, value |-> "I0 * T"]
        ELSE [raised |-> TRUE, value |-> "ValueError"]

\* float(x) raises for an object that is no number.
FloatRaises(x) == x.tag = "object"

\* Mutant of compute_norm_factor: the exposure is required, and used, in
\* "integrated" mode as well.
compute_norm_factor_ExposureAlways(exp_a, mon_a, trans_a, mode_s) ==
    IF mon_a = None \/ trans_a = None THEN NaN
    ELSE IF FloatRaises(mon_a) \/ FloatRaises(trans_a) THEN NaN
    ELSE IF ~(IsFinite(mon_a) /\ IsFinite(trans_a)) THEN NaN
    ELSE IF IsNonPositive(mon_a) \/ IsNonPositive(trans_a) THEN NaN
    ELSE LET mode_n == NormalizeMode(mode_s)
         IN  IF mode_n \in {RATE, INTEGRATED}
                 THEN IF exp_a = None THEN NaN
                      ELSE IF FloatRaises(exp_a) THEN NaN
                      ELSE IF ~IsFinite(exp_a) \/ IsNonPositive(exp_a) THEN NaN
                      ELSE Mul(Mul(exp_a, mon_a), trans_a)
                 ELSE Raised("ValueError")

\* compute_norm_factor of the package.
compute_norm_factor(exp_a, mon_a, trans_a, mode_s) ==
    IF mon_a = None \/ trans_a = None THEN NaN
    ELSE IF FloatRaises(mon_a) \/ FloatRaises(trans_a) THEN NaN
    ELSE IF ~(IsFinite(mon_a) /\ IsFinite(trans_a)) THEN NaN
    ELSE IF IsNonPositive(mon_a) \/ IsNonPositive(trans_a) THEN NaN
    ELSE LET mode_n == NormalizeMode(mode_s)
         IN  IF mode_n = RATE
                 THEN IF exp_a = None THEN NaN
                      ELSE IF FloatRaises(exp_a) THEN NaN
                      ELSE IF ~IsFinite(exp_a) \/ IsNonPositive(exp_a) THEN NaN
                      ELSE Mul(Mul(exp_a, mon_a), trans_a)
             ELSE IF mode_n = INTEGRATED
                 THEN Mul(mon_a, trans_a)
             ELSE Raised("ValueError")

\* SAXSAbsWorkbenchApp.compute_norm_factor: the workbench's own copy.  It
\* rejects a transmission above 1 and compares the mode as given.
App_compute_norm_factor(exp_a, mon_a, trans_a, mode_s) ==
    IF mon_a = None \/ trans_a = None THEN NaN
    ELSE IF FloatRaises(mon_a) \/ FloatRaises(trans_a) THEN NaN
    ELSE IF ~(IsFinite(mon_a) /\ IsFinite(trans_a)) THEN NaN
    ELSE IF IsNonPositive(mon_a) \/ IsNonPositive(trans_a) THEN NaN
    ELSE IF ExceedsOne(trans_a) THEN NaN
    ELSE IF mode_s = RATE
        THEN IF exp_a = None THEN NaN
             ELSE IF FloatRaises(exp_a) THEN NaN
             ELSE IF ~IsFinite(exp_a) \/ IsNonPositive(exp_a) THEN NaN
             ELSE Mul(Mul(exp_a, mon_a), trans_a)
    ELSE IF mode_s = INTEGRATED
        THEN Mul(mon_a, trans_a)
    ELSE Raised("ValueError")

\* The values tried for exp, mon and trans.
FloatInputs ==
    {None, NaN, PosInf, NegInf, NotANumber}
        \cup {Num(k, 2) : k \in (-MaxHalves)..MaxHalves}

\* The mode strings tried: the two modes, two spellings the package also
\* accepts, and two it does not know.
ModeInputs ==
    {RATE,
     INTEGRATED,
     <<" ", "R", "a", "t", "e", " ">>,
     <<"I", "N", "T", "E", "G", "R", "A", "T", "E", "D">>,
     <<"c", "o", "u", "n", "t", "s">>,
     <<>>}

CallComputeNormFactor ==
    /\ op = "idle"
    /\ UNCHANGED <<heap, held, disk, app>>
    /\ \E e \in FloatInputs, m \in FloatInputs, t \in FloatInputs,
          md \in ModeInputs :
            /\ op' = "compute_norm_factor"
            /\ args' = [exp |-> e, mon |-> m, trans |-> t, mode |-> md]
            /\ ret' = compute_norm_factor(e, m, t, md)

CallAppComputeNormFactor ==
    /\ op = "idle"
    /\ UNCHANGED <<heap, held, disk, app>>
    /\ \E e \in FloatInputs, m \in FloatInputs, t \in FloatInputs,
          md \in ModeInputs :
            /\ op' = "App.compute_norm_factor"
            /\ args' = [exp |-> e, mon |-> m, trans |-> t, mode |-> md]
            /\ ret' = App_compute_norm_factor(e, m, t, md)

CallMonitorNormFormula ==
    /\ op = "idle"
    /\ UNCHANGED <<heap, held, disk, app>>
    /\ \E md \in ModeInputs :
            /\ op' = "monitor_norm_formula"
            /\ args' = [mode |-> md]
            /\ ret' = monitor_norm_formula(md)

NextNorm ==
    \/ CallComputeNormFactor
    \/ CallAppComputeNormFactor
    \/ CallMonitorNormFormula
    \/ Return

SpecNorm == Idle /\ [][NextNorm]_vars

\* The spellings tried that name each mode (case and surrounding blanks are
\* ignored by the package), written out one by one.
RateSpellings == {<<"r", "a", "t", "e">>, <<" ", "R", "a", "t", "e", " ">>}

IntegratedSpellings ==
    {<<"i", "n", "t", "e", "g", "r", "a", "t", "e", "d">>,
     <<"I", "N", "T", "E", "G", "R", "A", "T", "E", "D">>}

\* A required input as the claims describe it: present, finite and > 0.
IsValidInput(x) == x.tag = "num" /\ x.n > 0

\* Missing, non-finite or <= 0.
IsInvalidInput(x) ==
    \/ x.tag \in {"none", "nan", "inf", "ninf"}
    \/ x.tag = "num" /\ x.n <= 0

\* r is the finite float x * y * z.
IsProduct3(r, x, y, z) ==
    /\ r.tag = "num"
    /\ r.n * (x.d * y.d * z.d) = r.d * (x.n * y.n * z.n)

\* r is the finite float x * y.
IsProduct2(r, x, y) ==
    /\ r.tag = "num"
    /\ r.n * (x.d * y.d) = r.d * (x.n * y.n)

\* C6: for a recognized mode, compute_norm_factor returns exp*mon*trans in
\* "rate" mode and mon*trans in "integrated" mode (the exposure is neither
\* required nor used there, even when it is None) whenever the required inputs
\* are finite, > 0 and trans <= 1; it returns NaN whenever mon or trans is
\* missing, non-finite or <= 0, and in "rate" mode also whenever exp is
\* missing, non-finite or <= 0.
C6_NormFactorValue ==
    (op = "compute_norm_factor"
        /\ args.mode \in RateSpellings \cup IntegratedSpellings) =>
        LET required_ok == /\ IsValidInput(args.mon)
                           /\ IsValidInput(args.trans)
                           /\ args.trans.n <= args.trans.d
        IN  /\ (args.mode \in RateSpellings /\ required_ok
                    /\ IsValidInput(args.exp))
                  => IsProduct3(ret, args.exp, args.mon, args.trans)
            /\ (args.mode \in IntegratedSpellings /\ required_ok)
                  => IsProduct2(ret, args.mon, args.trans)
            /\ (IsInvalidInput(args.mon) \/ IsInvalidInput(args.trans))
                  => ret = NaN
            /\ (args.mode \in RateSpellings /\ IsInvalidInput(args.exp))
                  => ret = NaN

\* "integrated" mode with no exposure at all still gives mon*trans.
C6_Witness ==
    /\ op = "compute_norm_factor"
    /\ args.mode \in IntegratedSpellings
    /\ args.exp = None
    /\ IsValidInput(args.mon)
    /\ IsValidInput(args.trans)
    /\ args.trans.n < args.trans.d
    /\ IsProduct2(ret, args.mon, args.trans)
    /\ ret.n > 0

\* C7: compute_norm_factor returns NaN whenever transmission is greater than
\* 1.0, in both modes and for any otherwise valid exposure and monitor.
\* Violated by the package's function, which has no such test and returns
\* the product.
C7_TransAboveOneIsNaN ==
    (op = "compute_norm_factor"
        /\ args.mode \in RateSpellings \cup IntegratedSpellings
        /\ IsValidInput(args.exp)
        /\ IsValidInput(args.mon)
        /\ args.trans.tag = "num"
        /\ args.trans.n > args.trans.d)
        => ret = NaN

\* The workbench's copy of the function does what C7 says.
App_TransAboveOneIsNaN ==
    (op = "App.compute_norm_factor"
        /\ args.trans.tag = "num"
        /\ args.trans.n > args.trans.d)
        => ret = NaN

\* C8: compute_norm_factor raises ValueError for any mode other than "rate"
\* or "integrated", for every exp, mon and trans (missing, non-finite or
\* non-positive ones included); a configuration error is never reported as
\* NaN.  Violated: mon and trans are examined before the mode is.
C8_UnknownModeRaises ==
    (op = "compute_norm_factor"
        /\ args.mode \notin RateSpellings \cup IntegratedSpellings)
        => ret = Raised("ValueError")

\* monitor_norm_formula, which takes the mode alone, does raise for every
\* mode it does not know.
FormulaUnknownModeRaises ==
    op = "monitor_norm_formula" =>
        /\ ret.raised <=> args.mode \notin RateSpellings \cup IntegratedSpellings
        /\ args.mode \in RateSpellings => ret.value = "exp * I0 * T"
        /\ args.mode \in IntegratedSpellings => ret.value = "I0 * T"

(***************************************************************************)
(* io/parsers.py: header parsing                                           *)
(***************************************************************************)

\* The most items a header mapping tried holds.
MaxHeaderLen == 2

Digits == <<"0", "1", "2", "3", "4", "5", "6", "7", "8", "9">>

IsDigit(c) == \E i \in 1..Len(Digits) : Digits[i] = c

DigitValue(c) == (CHOOSE i \in 1..Len(Digits) : Digits[i] = c) - 1

\* str.replace(old, new) for a one-character old and a new of any length.
RECURSIVE StrReplaceChar(_, _, _)
StrReplaceChar(str, old, new) ==
    IF str = <<>> THEN <<>>
    ELSE (IF Head(str) = old THEN new ELSE <<Head(str)>>)
             \o StrReplaceChar(Tail(str), old, new)

\* str.startswith, str.endswith and the 'in' operator on two strs.
StartsWith(str, prefix) ==
    Len(prefix) <= Len(str) /\ SubSeq(str, 1, Len(prefix)) = prefix

EndsWith(str, suffix) ==
    /\ Len(suffix) <= Len(str)
    /\ SubSeq(str, Len(str) - Len(suffix) + 1, Len(str)) = suffix

StrContains(str, sub) ==
    \E i \in 1..(Len(str) - Len(sub) + 1) :
        SubSeq(str, i, i + Len(sub) - 1) = sub

\* norm_key of a str key.
norm_key(key) ==
    LET s1 == StrReplaceChar(StrLower(StrStrip(key)), " ", <<>>)
        s2 == StrReplaceChar(StrReplaceChar(s1, "-", <<>>), "_", <<>>)
    IN  s2

\* SAXSAbsWorkbenchApp._norm_key: hyphens are kept.
App_norm_key(key) ==
    StrReplaceChar(StrReplaceChar(StrLower(StrStrip(key)), "_", <<>>), " ", <<>>)

(* FLOAT_PATTERN = [-+]?\d*\.?\d+(?:[eE][-+]?\d+)?  as re.search applies it:  *)
(* the leftmost match, every quantifier greedy and giving back on failure.    *)

\* One past the last of the digits that start at position i (i if none).
RECURSIVE DigitsEnd(_, _)
DigitsEnd(str, i) ==
    IF i <= Len(str) /\ IsDigit(str[i]) THEN DigitsEnd(str, i + 1) ELSE i

\* \d*\.?\d+ matched at j: one past its end, or 0 when it does not match.
\* After the leading digits a "." is taken only with a digit behind it;
\* otherwise the leading digits, given back one by one, feed \d+.
MantissaEnd(str, j) ==
    LET k == DigitsEnd(str, j)
    IN  IF k <= Len(str) /\ str[k] = "." /\ DigitsEnd(str, k + 1) > k + 1
            THEN DigitsEnd(str, k + 1)
        ELSE IF k > j THEN k
        ELSE 0

\* (?:[eE][-+]?\d+)? matched at k: one past its end (k when it is skipped).
ExponentEnd(str, k) ==
    IF k <= Len(str) /\ str[k] \in {"e", "E"}
        THEN LET d == IF k + 1 <= Len(str) /\ str[k + 1] \in {"-", "+"}
                          THEN k + 2 ELSE k + 1
             IN  IF DigitsEnd(str, d) > d THEN DigitsEnd(str, d) ELSE k
        ELSE k

\* The pattern matched at i: one past the end of the match, or 0.
FloatMatchEnd(str, i) ==
    IF str[i] \in {"-", "+"} /\ MantissaEnd(str, i + 1) # 0
        THEN ExponentEnd(str, MantissaEnd(str, i + 1))
    ELSE IF MantissaEnd(str, i) # 0
        THEN ExponentEnd(str, MantissaEnd(str, i))
    ELSE 0

\* FLOAT_PATTERN.search(s).group(0), or <<>> when there is no match.
FloatSearch(str) ==
    IF \E i \in 1..Len(str) : FloatMatchEnd(str, i) # 0
        THEN LET i == CHOOSE a \in 1..Len(str) :
                          /\ FloatMatchEnd(str, a) # 0
                          /\ \A b \in 1..(a - 1) : FloatMatchEnd(str, b) = 0
             IN  SubSeq(str, i, FloatMatchEnd(str, i) - 1)
        ELSE <<>>

\* int() of a run of digits.
RECURSIVE DigitsValue(_)
DigitsValue(ds) ==
    IF ds = <<>> THEN 0
    ELSE 10 * DigitsValue(SubSeq(ds, 1, Len(ds) - 1)) + DigitValue(ds[Len(ds)])

RECURSIVE Pow10(_)
Pow10(e) == IF e = 0 THEN 1 ELSE 10 * Pow10(e - 1)

\* float(token) of a token FLOAT_PATTERN matched.
FloatOfToken(tok) ==
    LET signed == tok[1] \in {"-", "+"}
        sign == IF tok[1] = "-" THEN -1 ELSE 1
        j == IF signed THEN 2 ELSE 1
        k == DigitsEnd(tok, j)
        hasFrac == k <= Len(tok) /\ tok[k] = "."
        m == IF hasFrac THEN DigitsEnd(tok, k + 1) ELSE k
        intDigits == SubSeq(tok, j, k - 1)
        fracDigits == IF hasFrac THEN SubSeq(tok, k + 1, m - 1) ELSE <<>>
        hasExp == m <= Len(tok)
        expNeg == hasExp /\ tok[m + 1] = "-"
        expFrom == IF hasExp /\ tok[m + 1] \in {"-", "+"} THEN m + 2 ELSE m + 1
        expAbs == IF hasExp THEN DigitsValue(SubSeq(tok, expFrom, Len(tok))) ELSE 0
        mant == sign * DigitsValue(intDigits \o fracDigits)
        e10 == (IF expNeg THEN -expAbs ELSE expAbs) - Len(fracDigits)
    IN  IF e10 >= 0 THEN Num(mant * Pow10(e10), 1)
        ELSE Num(mant, Pow10(-e10))

\* extract_float of a str (raw_isnull: raw is None).
extract_float(raw, raw_isnull) ==
    IF raw_isnull THEN None
    ELSE LET s0 == StrStrip(raw)
             s1 == IF StrContains(s0, <<",">>) /\ ~StrContains(s0, <<".">>)
                       THEN StrReplaceChar(s0, ",", <<".">>)
                       ELSE StrReplaceChar(s0, ",", <<>>)
             tok == FloatSearch(s1)
         IN  IF s0 = <<>> THEN None
             ELSE IF tok = <<>> THEN None
             ELSE FloatOfToken(tok)

\* x / y for a finite float x and a positive int y.
DivInt(x, y) == Num(x.n, x.d * y)

\* x < y and x <= y of two finite floats.
Less(x, y) ==
    LET g == Gcd(x.d, y.d) IN x.n * (y.d \div g) < y.n * (x.d \div g)
LessEq(x, y) ==
    LET g == Gcd(x.d, y.d) IN x.n * (y.d \div g) <= y.n * (x.d \div g)

PERCENT == <<"p", "e", "r", "c", "e", "n", "t">>
PCT == <<"p", "c", "t">>

\* t / y of a float t and a positive int y: NaN and the infinities stay
\* what they are.
TrueDivInt(t, y) == IF t.tag = "num" THEN DivInt(t, y) ELSE t

\* lo < t <= hi of a float t and two finite floats: false of NaN and of
\* the infinities.
InHalfOpen(lo, t, hi) == t.tag = "num" /\ Less(lo, t) /\ LessEq(t, hi)

\* has_pct_hint of the stripped, lower-cased raw text and the normalized key.
has_pct_hint(raw_s, key_s) ==
    \/ StrContains(raw_s, <<"%">>)
    \/ StrContains(raw_s, PERCENT)
    \/ StrContains(raw_s, PCT)
    \/ StrContains(key_s, PERCENT)
    \/ StrContains(key_s, PCT)

\* Mutant of normalize_transmission: the lower boundary 2.0 is taken for a
\* percent literal too.
normalize_transmission_ClosedAtTwo(trans_a, raw, raw_isnull, key, key_isnull) ==
    IF trans_a = None THEN None
    ELSE LET raw_s == IF raw_isnull THEN <<>> ELSE StrLower(StrStrip(raw))
             key_s == IF key_isnull THEN <<>> ELSE norm_key(key)
         IN  IF has_pct_hint(raw_s, key_s) THEN TrueDivInt(trans_a, 100)
             ELSE IF trans_a.tag = "num" /\ LessEq(Num(2, 1), trans_a)
                         /\ LessEq(trans_a, Num(100, 1))
                 THEN TrueDivInt(trans_a, 100)
             ELSE trans_a

\* normalize_transmission (raw and key are strs, or None: the isnull flags).
normalize_transmission(trans_a, raw, raw_isnull, key, key_isnull) ==
    IF trans_a = None THEN None
    ELSE LET raw_s == IF raw_isnull THEN <<>> ELSE StrLower(StrStrip(raw))
             key_s == IF key_isnull THEN <<>> ELSE norm_key(key)
         IN  IF has_pct_hint(raw_s, key_s) THEN TrueDivInt(trans_a, 100)
             ELSE IF InHalfOpen(Num(2, 1), trans_a, Num(100, 1))
                 THEN TrueDivInt(trans_a, 100)
             ELSE trans_a

\* SAXSAbsWorkbenchApp._normalize_transmission: the same, with a branch of
\* its own (that does nothing) for 1.0 < t <= 2.0.
App_normalize_transmission(trans_a, raw, raw_isnull, key, key_isnull) ==
    IF trans_a = None THEN None
    ELSE LET raw_s == IF raw_isnull THEN <<>> ELSE StrLower(StrStrip(raw))
             key_s == IF key_isnull THEN <<>> ELSE App_norm_key(key)
         IN  IF has_pct_hint(raw_s, key_s) THEN TrueDivInt(trans_a, 100)
             ELSE IF InHalfOpen(Num(1, 1), trans_a, Num(2, 1)) THEN trans_a
             ELSE IF InHalfOpen(Num(2, 1), trans_a, Num(100, 1))
                 THEN TrueDivInt(trans_a, 100)
             ELSE trans_a

\* The position of normalized key nk in meta, a dict kept in insertion order
\* as a sequence of [k, v]; 0 when it is not a key of it.
MetaIndex(meta, nk) ==
    IF \E i \in 1..Len(meta) : meta[i].k = nk
        THEN CHOOSE i \in 1..Len(meta) : meta[i].k = nk
        ELSE 0

\* add_meta: meta[nk] = str(v).strip(); an item with a None value or an
\* empty normalized key is dropped.
add_meta(meta, item) ==
    LET nk == norm_key(item.key)
        i == MetaIndex(meta, nk)
    IN  IF item.isnull THEN meta
        ELSE IF nk = <<>> THEN meta
        ELSE IF i # 0 THEN [meta EXCEPT ![i].v = StrStrip(item.value)]
        ELSE Append(meta, [k |-> nk, v |-> StrStrip(item.value)])

\* for k, v in header_mapping.items(): add_meta(k, v)
RECURSIVE BuildMeta(_, _)
BuildMeta(meta, items) ==
    IF items = <<>> THEN meta
    ELSE BuildMeta(add_meta(meta, Head(items)), Tail(items))

exp_keys ==
    <<<<"e", "x", "p", "o", "s", "u", "r", "e", "t", "i", "m", "e">>,
      <<"c", "o", "u", "n", "t", "t", "i", "m", "e">>,
      <<"a", "c", "q", "t", "i", "m", "e">>,
      <<"e", "x", "p", "o", "s", "u", "r", "e">>,
      <<"t", "i", "m", "e">>>>

mon_keys ==
    <<<<"m", "o", "n", "i", "t", "o", "r">>,
      <<"b", "e", "a", "m", "m", "o", "n", "i", "t", "o", "r">>,
      <<"i", "o", "n", "c", "h", "a", "m", "b", "e", "r">>,
      <<"m", "o", "n">>,
      <<"i", "0">>,
      <<"f", "l", "u", "x">>>>

trans_keys ==
    <<<<"s", "a", "m", "p", "l", "e", "t", "r", "a", "n", "s", "m", "i", "s", "s", "i", "o", "n">>,
      <<"t", "r", "a", "n", "s", "m", "i", "s", "s", "i", "o", "n">>,
      <<"t", "r", "a", "n", "s">>,
      <<"a", "b", "s">>>>

exp_exact_only == {<<"t", "i", "m", "e">>}

mon_exact_only == {<<"m", "o", "n">>, <<"i", "0">>}

trans_exact_only == {<<"a", "b", "s">>}

\* What get_val returns: (raw, key), or (None, None).
Found(raw, key) == [found |-> TRUE, raw |-> raw, key |-> key]
NotFound == [found |-> FALSE, raw |-> <<>>, key |-> <<>>]

\* get_val, first loop: the first candidate that is a key of meta.
RECURSIVE GetValExact(_, _, _)
GetValExact(meta, keys, i) ==
    IF i > Len(keys) THEN NotFound
    ELSE IF MetaIndex(meta, keys[i]) # 0
        THEN Found(meta[MetaIndex(meta, keys[i])].v, keys[i])
    ELSE GetValExact(meta, keys, i + 1)

\* get_val, second loop: the first meta key that starts or ends with a
\* candidate that is not exact-only.
RECURSIVE GetValAffix(_, _, _, _)
GetValAffix(meta, keys, exact_only, m) ==
    IF m > Len(meta) THEN NotFound
    ELSE IF \E i \in 1..Len(keys) :
                /\ keys[i] \notin exact_only
                /\ (StartsWith(meta[m].k, keys[i]) \/ EndsWith(meta[m].k, keys[i]))
        THEN Found(meta[m].v, meta[m].k)
    ELSE GetValAffix(meta, keys, exact_only, m + 1)

\* get_val, third loop: the first meta key that contains a candidate of six
\* or more characters that is not exact-only.
RECURSIVE GetValContains(_, _, _, _)
GetValContains(meta, keys, exact_only, m) ==
    IF m > Len(meta) THEN NotFound
    ELSE IF \E i \in 1..Len(keys) :
                /\ ~(keys[i] \in exact_only \/ Len(keys[i]) < 6)
                /\ StrContains(meta[m].k, keys[i])
        THEN Found(meta[m].v, meta[m].k)
    ELSE GetValContains(meta, keys, exact_only, m + 1)

\* Mutant of get_val: the second loop does not skip the exact-only candidates.
get_val_AffixForAll(meta, keys, exact_only) ==
    IF GetValExact(meta, keys, 1).found THEN GetValExact(meta, keys, 1)
    ELSE IF GetValAffix(meta, keys, {}, 1).found
        THEN GetValAffix(meta, keys, {}, 1)
    ELSE GetValContains(meta, keys, exact_only, 1)

\* get_val
get_val(meta, keys, exact_only) ==
    IF GetValExact(meta, keys, 1).found THEN GetValExact(meta, keys, 1)
    ELSE IF GetValAffix(meta, keys, exact_only, 1).found
        THEN GetValAffix(meta, keys, exact_only, 1)
    ELSE GetValContains(meta, keys, exact_only, 1)

MS == <<"m", "s">>
US == <<"u", "s">>

\* Mutant of exposure_to_seconds: "us" is tested before "ms".
exposure_to_seconds_UsFirst(exp_a, exp_key, exp_raw) ==
    IF exp_a = None THEN None
    ELSE LET exp_tag == StrLower(exp_key \o <<" ">> \o exp_raw)
         IN  IF StrContains(exp_tag, US) THEN DivInt(exp_a, 1000000)
             ELSE IF StrContains(exp_tag, MS) THEN DivInt(exp_a, 1000)
             ELSE exp_a

\* The unit correction of the exposure in parse_header_values; exp_key and
\* exp_raw are <<>> where the code has None ("exp_key or ''").
exposure_to_seconds(exp_a, exp_key, exp_raw) ==
    IF exp_a = None THEN None
    ELSE LET exp_tag == StrLower(exp_key \o <<" ">> \o exp_raw)
         IN  IF StrContains(exp_tag, MS) THEN DivInt(exp_a, 1000)
             ELSE IF StrContains(exp_tag, US) THEN DivInt(exp_a, 1000000)
             ELSE exp_a

\* parse_header_values: the returned (exp, mon, trans), and with it what the
\* three get_val calls returned.
parse_header_values(header_mapping) ==
    LET meta == BuildMeta(<<>>, header_mapping)
        exp_l == get_val(meta, exp_keys, exp_exact_only)
        mon_l == get_val(meta, mon_keys, mon_exact_only)
        trans_l == get_val(meta, trans_keys, trans_exact_only)
        exp0 == extract_float(exp_l.raw, ~exp_l.found)
        mon0 == extract_float(mon_l.raw, ~mon_l.found)
        trans0 == extract_float(trans_l.raw, ~trans_l.found)
    IN  [exp |-> exposure_to_seconds(exp0, exp_l.key, exp_l.raw),
         mon |-> mon0,
         trans |-> normalize_transmission(trans0, trans_l.raw, ~trans_l.found,
                                          trans_l.key, ~trans_l.found),
         meta |-> meta,
         exp_lookup |-> exp_l,
         mon_lookup |-> mon_l,
         trans_lookup |-> trans_l]

\* The header items tried, as (key, value) with the value a str or None.
HeaderEntries ==
    <<
      \* ExposureTime: "200 ms"
      [key |-> <<"E", "x", "p", "o", "s", "u", "r", "e", "T", "i", "m", "e">>,
       value |-> <<"2", "0", "0", " ", "m", "s">>, isnull |-> FALSE],
      \* acq_time: "500 us"
      [key |-> <<"a", "c", "q", "_", "t", "i", "m", "e">>,
       value |-> <<"5", "0", "0", " ", "u", "s">>, isnull |-> FALSE],
      \* time: "2"
      [key |-> <<"t", "i", "m", "e">>,
       value |-> <<"2">>, isnull |-> FALSE],
      \* runtime: "7"
      [key |-> <<"r", "u", "n", "t", "i", "m", "e">>,
       value |-> <<"7">>, isnull |-> FALSE],
      \* exposure_ms: "250"
      [key |-> <<"e", "x", "p", "o", "s", "u", "r", "e", "_", "m", "s">>,
       value |-> <<"2", "5", "0">>, isnull |-> FALSE],
      \* Det-Exposure-Status: "0.5"
      [key |-> <<"D", "e", "t", "-", "E", "x", "p", "o", "s", "u", "r", "e", "-", "S", "t", "a", "t", "u", "s">>,
       value |-> <<"0", ".", "5">>, isnull |-> FALSE],
      \* count_time: "3 MS"
      [key |-> <<"c", "o", "u", "n", "t", "_", "t", "i", "m", "e">>,
       value |-> <<"3", " ", "M", "S">>, isnull |-> FALSE],
      \* exposure_us: "4 ms"
      [key |-> <<"e", "x", "p", "o", "s", "u", "r", "e", "_", "u", "s">>,
       value |-> <<"4", " ", "m", "s">>, isnull |-> FALSE],
      \* exposure-time: "1,000.5"
      [key |-> <<"e", "x", "p", "o", "s", "u", "r", "e", "-", "t", "i", "m", "e">>,
       value |-> <<"1", ",", "0", "0", "0", ".", "5">>, isnull |-> FALSE],
      \* exposure: "auto"
      [key |-> <<"e", "x", "p", "o", "s", "u", "r", "e">>,
       value |-> <<"a", "u", "t", "o">>, isnull |-> FALSE],
      \* EXPOSURE TIME: None
      [key |-> <<"E", "X", "P", "O", "S", "U", "R", "E", " ", "T", "I", "M", "E">>,
       value |-> <<>>, isnull |-> TRUE],
      \* I0: "1.2e3"
      [key |-> <<"I", "0">>,
       value |-> <<"1", ".", "2", "e", "3">>, isnull |-> FALSE],
      \* monitor: "10000"
      [key |-> <<"m", "o", "n", "i", "t", "o", "r">>,
       value |-> <<"1", "0", "0", "0", "0">>, isnull |-> FALSE],
      \* monochromator: "7"
      [key |-> <<"m", "o", "n", "o", "c", "h", "r", "o", "m", "a", "t", "o", "r">>,
       value |-> <<"7">>, isnull |-> FALSE],
      \* flux_total: "3"
      [key |-> <<"f", "l", "u", "x", "_", "t", "o", "t", "a", "l">>,
       value |-> <<"3">>, isnull |-> FALSE],
      \* x-monitor-y: "8"
      [key |-> <<"x", "-", "m", "o", "n", "i", "t", "o", "r", "-", "y">>,
       value |-> <<"8">>, isnull |-> FALSE],
      \* xfluxy: "9"
      [key |-> <<"x", "f", "l", "u", "x", "y">>,
       value |-> <<"9">>, isnull |-> FALSE],
      \* Transmission: "85%"
      [key |-> <<"T", "r", "a", "n", "s", "m", "i", "s", "s", "i", "o", "n">>,
       value |-> <<"8", "5", "%">>, isnull |-> FALSE],
      \* sample_transmission: "72"
      [key |-> <<"s", "a", "m", "p", "l", "e", "_", "t", "r", "a", "n", "s", "m", "i", "s", "s", "i", "o", "n">>,
       value |-> <<"7", "2">>, isnull |-> FALSE],
      \* abs: "0,85"
      [key |-> <<"a", "b", "s">>,
       value |-> <<"0", ",", "8", "5">>, isnull |-> FALSE],
      \* absorption: "1.5"
      [key |-> <<"a", "b", "s", "o", "r", "p", "t", "i", "o", "n">>,
       value |-> <<"1", ".", "5">>, isnull |-> FALSE],
      \* trans_pct: "150"
      [key |-> <<"t", "r", "a", "n", "s", "_", "p", "c", "t">>,
       value |-> <<"1", "5", "0">>, isnull |-> FALSE],
      \* x_transmission_x: "250"
      [key |-> <<"x", "_", "t", "r", "a", "n", "s", "m", "i", "s", "s", "i", "o", "n", "_", "x">>,
       value |-> <<"2", "5", "0">>, isnull |-> FALSE],
      \* trans: "-.5e1"
      [key |-> <<"t", "r", "a", "n", "s">>,
       value |-> <<"-", ".", "5", "e", "1">>, isnull |-> FALSE]
    >>

\* The header mappings tried: up to MaxHeaderLen of the items, each at most
\* once (a dict holds a key once), in every order.
HeaderInputs ==
    UNION {{[i \in 1..n |-> HeaderEntries[f[i]]] :
               f \in {g \in [1..n -> 1..Len(HeaderEntries)] :
                         \A a, b \in 1..n : a # b => g[a] # g[b]}} :
           n \in 0..MaxHeaderLen}

CallParseHeaderValues ==
    /\ op = "idle"
    /\ UNCHANGED <<heap, held, disk, app>>
    /\ \E h \in HeaderInputs :
            /\ op' = "parse_header_values"
            /\ args' = [header_mapping |-> h]
            /\ ret' = parse_header_values(h)

NextHeader ==
    \/ CallParseHeaderValues
    \/ Return

SpecHeader == Idle /\ [][NextHeader]_vars

\* p is the beginning of, the end of, or somewhere inside str.
BeginsStr(p, str) ==
    Len(p) <= Len(str) /\ \A j \in 1..Len(p) : str[j] = p[j]

EndsStr(p, str) ==
    Len(p) <= Len(str) /\ \A j \in 1..Len(p) : str[Len(str) - Len(p) + j] = p[j]

InsideStr(p, str) ==
    \E o \in 0..(Len(str) - Len(p)) : \A j \in 1..Len(p) : str[o + j] = p[j]

MinOf(S) == CHOOSE x \in S : \A y \in S : x <= y

\* What C9 says get_val(keys, exact_only) returns for the header keys and
\* values kept in meta.
C9_Lookup(meta, keys, exact_only, r) ==
    LET exactHits == {i \in 1..Len(keys) :
                         \E m \in 1..Len(meta) : meta[m].k = keys[i]}
        affixHits == {m \in 1..Len(meta) :
                         \E i \in 1..Len(keys) :
                             /\ keys[i] \notin exact_only
                             /\ \/ BeginsStr(keys[i], meta[m].k)
                                \/ EndsStr(keys[i], meta[m].k)}
        insideHits == {m \in 1..Len(meta) :
                          \E i \in 1..Len(keys) :
                              /\ keys[i] \notin exact_only
                              /\ Len(keys[i]) >= 6
                              /\ InsideStr(keys[i], meta[m].k)}
        valueOf(k) == meta[CHOOSE m \in 1..Len(meta) : meta[m].k = k].v
        candidates == {keys[i] : i \in 1..Len(keys)}
    IN  /\ exactHits # {} =>
               /\ r.found
               /\ r.key = keys[MinOf(exactHits)]
               /\ r.raw = valueOf(keys[MinOf(exactHits)])
        /\ (exactHits = {} /\ affixHits # {}) =>
               /\ r.found
               /\ r.key = meta[MinOf(affixHits)].k
               /\ r.raw = meta[MinOf(affixHits)].v
        /\ (exactHits = {} /\ affixHits = {} /\ insideHits # {}) =>
               /\ r.found
               /\ r.key = meta[MinOf(insideHits)].k
               /\ r.raw = meta[MinOf(insideHits)].v
        /\ (exactHits = {} /\ affixHits = {} /\ insideHits = {}) =>
               ~r.found
        \* a key that merely begins with, ends with or contains an exact-only
        \* fragment, with no other candidate matching any key: (None, None)
        /\ (/\ \E m \in 1..Len(meta) : \E e \in exact_only :
                   meta[m].k # e /\ InsideStr(e, meta[m].k)
            /\ \A m \in 1..Len(meta) :
                   /\ meta[m].k \notin candidates
                   /\ \A c \in candidates \ exact_only :
                          ~InsideStr(c, meta[m].k))
               => ~r.found
        \* a hit of the second or third pass only without an exact key
        /\ (r.found /\ r.key \notin candidates) => exactHits = {}

\* C9: get_val runs three passes in order and returns at the first hit:
\* (1) a candidate equal to a normalized header key, candidates in priority
\* order; (2) a header key that starts or ends with a candidate that is not
\* exact-only; (3) a header key that contains a candidate that is not
\* exact-only and has length >= 6.  So a header key that merely starts with,
\* ends with or contains an exact-only fragment and matches no other candidate
\* yields (None, None), and a hit of pass 2 or 3 is returned only when no
\* candidate is present as an exact key.
C9_ThreePassLookup ==
    op = "parse_header_values" =>
        /\ C9_Lookup(ret.meta, exp_keys, exp_exact_only, ret.exp_lookup)
        /\ C9_Lookup(ret.meta, mon_keys, mon_exact_only, ret.mon_lookup)
        /\ C9_Lookup(ret.meta, trans_keys, trans_exact_only, ret.trans_lookup)

\* "runtime" ends with the exact-only "time" and gives no exposure, while
\* "xmonitory" only contains "monitor" and gives the monitor in pass 3.
C9_Witness ==
    /\ op = "parse_header_values"
    /\ Len(ret.meta) = 2
    /\ ret.meta[1].k = <<"r", "u", "n", "t", "i", "m", "e">>
    /\ ret.meta[2].k = <<"x", "m", "o", "n", "i", "t", "o", "r", "y">>
    /\ ~ret.exp_lookup.found
    /\ ret.mon_lookup.found
    /\ ret.mon_lookup.key = <<"x", "m", "o", "n", "i", "t", "o", "r", "y">>
    /\ ret.mon_lookup.raw = <<"8">>

\* sub occurs in str as it stands.
OccursIn(sub, str) == InsideStr(sub, str)

\* sub (lower case) occurs in str when the letter case of str is ignored.
OccursInIgnoringCase(sub, str) ==
    \E o \in 0..(Len(str) - Len(sub)) :
        \A j \in 1..Len(sub) : LowerChar(str[o + j]) = sub[j]

\* r is the finite float x / y.
IsQuotient(r, x, y) == r.tag = "num" /\ r.n * x.d * y = r.d * x.n

\* C10 as stated: the exposure is the parsed number divided by 1000 when the
\* matched key or the raw value contains "ms", otherwise divided by 1,000,000
\* when one of them contains "us", otherwise unchanged.  Violated: the raw
\* value is lower-cased before the test, so "3 MS" is divided by 1000 too.
C10_ExposureSecondsAsWritten ==
    (op = "parse_header_values" /\ ret.exp # None) =>
        LET key == ret.exp_lookup.key
            raw == ret.exp_lookup.raw
            x == extract_float(raw, FALSE)
        IN  IF OccursIn(MS, key) \/ OccursIn(MS, raw)
                THEN IsQuotient(ret.exp, x, 1000)
            ELSE IF OccursIn(US, key) \/ OccursIn(US, raw)
                THEN IsQuotient(ret.exp, x, 1000000)
            ELSE ret.exp = x

\* C10 as amended: the same, with "ms" and "us" looked for in the matched key
\* and in the raw value whatever their letter case; "ms" wins when both
\* occur; "200 ms" gives 0.2 and "500 us" gives 0.0005.
C10_ExposureSeconds ==
    op = "parse_header_values" =>
        LET key == ret.exp_lookup.key
            raw == ret.exp_lookup.raw
            x == extract_float(raw, ~ret.exp_lookup.found)
        IN  /\ x = None => ret.exp = None
            /\ x # None =>
                  IF OccursInIgnoringCase(MS, key) \/ OccursInIgnoringCase(MS, raw)
                      THEN IsQuotient(ret.exp, x, 1000)
                  ELSE IF OccursInIgnoringCase(US, key)
                              \/ OccursInIgnoringCase(US, raw)
                      THEN IsQuotient(ret.exp, x, 1000000)
                  ELSE ret.exp = x
            /\ (ret.exp_lookup.found /\ raw = <<"2", "0", "0", " ", "m", "s">>)
                  => ret.exp = [tag |-> "num", n |-> 1, d |-> 5]
            /\ (ret.exp_lookup.found /\ raw = <<"5", "0", "0", " ", "u", "s">>)
                  => ret.exp = [tag |-> "num", n |-> 1, d |-> 2000]

\* "4 ms" under the key "exposureus": both units occur, and "ms" wins.
C10_Witness ==
    /\ op = "parse_header_values"
    /\ ret.exp_lookup.found
    /\ ret.exp_lookup.key = <<"e", "x", "p", "o", "s", "u", "r", "e", "u", "s">>
    /\ ret.exp_lookup.raw = <<"4", " ", "m", "s">>
    /\ ret.exp = [tag |-> "num", n |-> 1, d |-> 250]

(***************************************************************************)
(* io/parsers.py: normalize_transmission called on its own, and            *)
(* SAXSAbsWorkbenchApp._normalize_transmission                             *)
(***************************************************************************)

\* The transmissions tried run from -1/2 to MaxTransHalves/2 in halves.
MaxTransHalves == 5

\* The values of trans tried: None, the non-finite floats, the halves around
\* 1.0 and 2.0, the neighbours of 100.0, and two plain percentages.
TransInputs ==
    {None, NaN, PosInf, NegInf}
        \cup {Num(k, 2) : k \in (-1)..MaxTransHalves}
        \cup {Num(199, 2), Num(100, 1), Num(201, 2), Num(85, 1), Num(150, 1)}

\* The raw texts tried (a str, or None).
TransRawInputs ==
    {
      \* None
      [s |-> <<>>, isnull |-> TRUE],
      \* "0.5"
      [s |-> <<"0", ".", "5">>, isnull |-> FALSE],
      \* "85%"
      [s |-> <<"8", "5", "%">>, isnull |-> FALSE],
      \* "85 Percent"
      [s |-> <<"8", "5", " ", "P", "e", "r", "c", "e", "n", "t">>, isnull |-> FALSE],
      \* " 1.5 PCT "
      [s |-> <<" ", "1", ".", "5", " ", "P", "C", "T", " ">>, isnull |-> FALSE]
    }

\* The matched keys tried (a str, or None).
TransKeyInputs ==
    {
      \* None
      [s |-> <<>>, isnull |-> TRUE],
      \* "transmission"
      [s |-> <<"t", "r", "a", "n", "s", "m", "i", "s", "s", "i", "o", "n">>, isnull |-> FALSE],
      \* "trans_pct"
      [s |-> <<"t", "r", "a", "n", "s", "_", "p", "c", "t">>, isnull |-> FALSE],
      \* "Trans-Percent"
      [s |-> <<"T", "r", "a", "n", "s", "-", "P", "e", "r", "c", "e", "n", "t">>, isnull |-> FALSE],
      \* "transmission%"
      [s |-> <<"t", "r", "a", "n", "s", "m", "i", "s", "s", "i", "o", "n", "%">>, isnull |-> FALSE],
      \* "T (%)"
      [s |-> <<"T", " ", "(", "%", ")">>, isnull |-> FALSE]
    }

CallNormalizeTransmission ==
    /\ op = "idle"
    /\ UNCHANGED <<heap, held, disk, app>>
    /\ \E t \in TransInputs, raw \in TransRawInputs, key \in TransKeyInputs :
            /\ op' = "normalize_transmission"
            /\ args' = [trans |-> t, raw |-> raw, key |-> key]
            /\ ret' = normalize_transmission(t, raw.s, raw.isnull,
                                             key.s, key.isnull)

CallAppNormalizeTransmission ==
    /\ op = "idle"
    /\ UNCHANGED <<heap, held, disk, app>>
    /\ \E t \in TransInputs, raw \in TransRawInputs, key \in TransKeyInputs :
            /\ op' = "App._normalize_transmission"
            /\ args' = [trans |-> t, raw |-> raw, key |-> key]
            /\ ret' = App_normalize_transmission(t, raw.s, raw.isnull,
                                                 key.s, key.isnull)

NextTrans ==
    \/ CallNormalizeTransmission
    \/ CallAppNormalizeTransmission
    \/ Return

SpecTrans == Idle /\ [][NextTrans]_vars

\* str without its blanks, hyphens and underscores.
WithoutSeparators(str) == SelectSeq(str, LAMBDA c : c \notin {" ", "-", "_"})

\* r is t / 100 (NaN and the infinities divided by 100 are themselves).
IsHundredth(r, t) == IF t.tag = "num" THEN IsQuotient(r, t, 100) ELSE r = t

\* 2.0 < t <= 100.0
IsBarePercent(t) == t.tag = "num" /\ 2 * t.d < t.n /\ t.n <= 100 * t.d

\* One of "%", "percent", "pct" occurs in str, whatever the letter case.
CarriesPercentToken(str) ==
    \/ OccursInIgnoringCase(<<"%">>, str)
    \/ OccursInIgnoringCase(PERCENT, str)
    \/ OccursInIgnoringCase(PCT, str)

App_NormalizeTransmissionAgrees ==
    op = "App._normalize_transmission" =>
        ret = normalize_transmission(args.trans, args.raw.s, args.raw.isnull,
                                     args.key.s, args.key.isnull)

\* C12: for every header mapping, the transmission returned by
\* parse_header_values is either None or a value in the range (0, 2].
\* Violated: nothing bounds the number parsed, so "250" is returned as 250.0
\* (above 100, it is no percent literal) and "-.5e1" as -5.0.
C12_TransmissionInRange ==
    op = "parse_header_values" =>
        \/ ret.trans = None
        \/ /\ ret.trans.tag = "num"
           /\ 0 < ret.trans.n
           /\ ret.trans.n <= 2 * ret.trans.d

(***************************************************************************)
(* constants.py: the registry of reference standards                       *)
(***************************************************************************)

\* The water temperatures tried lie up to MaxTempExcess degrees outside the
\* valid range, and n_points runs from -1 to MaxPoints.
MaxTempExcess == 1
MaxPoints == 2

\* x + y, x - y and x / y of two finite floats (y # 0).
AddF(x, y) ==
    LET g == Gcd(x.d, y.d)
    IN  Num(x.n * (y.d \div g) + y.n * (x.d \div g), (x.d \div g) * y.d)
SubF(x, y) == AddF(x, Num(-y.n, y.d))
DivF(x, y) == Mul(x, Num(y.d, y.n))

\* _WATER_KAPPA_T, as the sorted temperatures and their compressibilities.
WATER_KAPPA_T_temps == <<4, 5, 10, 15, 20, 25, 30, 35, 40>>
WATER_KAPPA_T_kappas ==
    <<Num(5068, 1000), Num(4920, 1000), Num(4788, 1000), Num(4524, 1000),
      Num(4591, 1000), Num(4524, 1000), Num(4475, 1000), Num(4422, 1000),
      Num(4399, 1000)>>

WATER_REF_TEMP_C == Num(20, 1)

\* np.interp(x, xp, fp) for xp[1] <= x <= xp[Len(xp)]: linear between the two
\* neighbours of x.
Interp(x, xp, fp) ==
    LET j == CHOOSE k \in 1..(Len(xp) - 1) :
                 /\ LessEq(Num(xp[k], 1), x)
                 /\ \/ Less(x, Num(xp[k + 1], 1))
                    \/ (k = Len(xp) - 1 /\ x = Num(xp[k + 1], 1))
        slope == DivF(SubF(fp[j + 1], fp[j]), Num(xp[j + 1] - xp[j], 1))
    IN  AddF(fp[j], Mul(SubF(x, Num(xp[j], 1)), slope))

\* Mutant of water_dsdw: the range of temperatures is not tested (np.interp
\* holds the end values outside the table).
water_dsdw_NoRangeTest(temperature_C) ==
    LET clamped == IF Less(temperature_C, Num(4, 1)) THEN Num(4, 1)
                   ELSE IF Less(Num(40, 1), temperature_C) THEN Num(40, 1)
                   ELSE temperature_C
        kappa == Interp(clamped, WATER_KAPPA_T_temps, WATER_KAPPA_T_kappas)
        kappa_ref == WATER_KAPPA_T_kappas[5]
        T_K == AddF(temperature_C, Num(27315, 100))
        T_ref_K == AddF(WATER_REF_TEMP_C, Num(27315, 100))
        factor == Mul(DivF(kappa, kappa_ref), DivF(T_K, T_ref_K))
    IN  [tag |-> "dsdw", n |-> factor.n, d |-> factor.d]

\* water_dsdw.  The value _WATER_REF_DSDW * (kappa * T_K) / (kappa_ref *
\* T_ref_K) is kept as the float tagged "dsdw" whose n/d is the factor that
\* multiplies _WATER_REF_DSDW.
water_dsdw(temperature_C) ==
    IF Less(temperature_C, Num(4, 1)) \/ Less(Num(40, 1), temperature_C)
        THEN Raised("ValueError")
    ELSE LET kappa == Interp(temperature_C, WATER_KAPPA_T_temps,
                             WATER_KAPPA_T_kappas)
             kappa_ref == WATER_KAPPA_T_kappas[5]
             T_K == AddF(temperature_C, Num(27315, 100))
             T_ref_K == AddF(WATER_REF_TEMP_C, Num(27315, 100))
             factor == Mul(DivF(kappa, kappa_ref), DivF(T_K, T_ref_K))
         IN  [tag |-> "dsdw", n |-> factor.n, d |-> factor.d]

\* StandardReference entries; q_data and i_data are object ids, 0 for None.
StandardReference(standard_type, q_data, i_data, is_q_independent) ==
    [standard_type |-> standard_type, q_data |-> q_data, i_data |-> i_data,
     is_q_independent |-> is_q_independent]

STANDARD_REGISTRY ==
    [k \in {"SRM3600", "Water_20C", "Lupolen", "Custom"} |->
        IF k = "SRM3600"
            THEN StandardReference("primary", SRM3600_q_data, SRM3600_i_data, FALSE)
        ELSE IF k = "Water_20C"
            THEN StandardReference("primary", 0, 0, TRUE)
        ELSE StandardReference("user_provided", 0, 0, FALSE)]

\* The ids not in use, and the one a new array gets.
FreeIds(h) == {id \in DOMAIN h : ~h[id].alloc}
NewId(h) == CHOOSE id \in FreeIds(h) : \A other \in FreeIds(h) : id <= other

\* A new array on the heap: the heap after, and the id of the array.
NewArray(h, dtype, data) ==
    [heap |-> [h EXCEPT ![NewId(h)] = NdArray(dtype, data)], id |-> NewId(h)]

\* arr.copy()
ArrayCopy(h, id) == NewArray(h, h[id].dtype, h[id].data)

\* np.asarray(arr, dtype=np.float64): the array itself when it is float64
\* already, else a new float64 array of the same values.
AsFloat64Array(h, id) ==
    IF h[id].dtype = "float64" THEN [heap |-> h, id |-> id]
    ELSE NewArray(h, "float64", h[id].data)

\* np.linspace(start, stop, num) for num >= 0.
Linspace(start, stop, num) ==
    IF num = 1 THEN <<start>>
    ELSE [k \in 1..num |->
             AddF(start, DivF(Mul(Num(k - 1, 1), SubF(stop, start)),
                              Num(num - 1, 1)))]

\* What a call of get_reference_data ends with: an exception, or the ids of
\* the two arrays returned; and the heap after the call.
ReferenceRaises(h) == [raised |-> "ValueError", q |-> 0, i |-> 0, heap |-> h]
ReferenceReturns(h, q, i) == [raised |-> "", q |-> q, i |-> i, heap |-> h]

\* Mutant of get_reference_data: the tabulated arrays are returned
\* themselves, not copies of them.
get_reference_data_NoCopy(h, standard_key, temperature_C, q_user, i_user, q_range, n_points) ==
    IF standard_key \notin DOMAIN STANDARD_REGISTRY THEN ReferenceRaises(h)
    ELSE LET std == STANDARD_REGISTRY[standard_key] IN
        IF std.q_data # 0 /\ std.i_data # 0
            THEN ReferenceReturns(h, std.q_data, std.i_data)
        ELSE IF std.is_q_independent
            THEN LET T == IF temperature_C = None THEN WATER_REF_TEMP_C
                          ELSE temperature_C
                     dsdw == water_dsdw(T)
                 IN  IF dsdw = Raised("ValueError") THEN ReferenceRaises(h)
                     ELSE IF n_points < 0 THEN ReferenceRaises(h)
                     ELSE LET q_arr == NewArray(h, "float64",
                                  Linspace(q_range[1], q_range[2], n_points))
                              i_arr == NewArray(q_arr.heap, "float64",
                                  [k \in 1..n_points |-> dsdw])
                          IN  ReferenceReturns(i_arr.heap, q_arr.id, i_arr.id)
        ELSE IF q_user # 0 /\ i_user # 0
            THEN LET q == AsFloat64Array(h, q_user)
                     i == AsFloat64Array(q.heap, i_user)
                 IN  ReferenceReturns(i.heap, q.id, i.id)
        ELSE ReferenceRaises(h)

\* get_reference_data, called with heap h (q_user and i_user are object ids,
\* 0 for None; np.linspace raises ValueError for a negative number of
\* samples).
get_reference_data(h, standard_key, temperature_C, q_user, i_user, q_range, n_points) ==
    IF standard_key \notin DOMAIN STANDARD_REGISTRY THEN ReferenceRaises(h)
    ELSE LET std == STANDARD_REGISTRY[standard_key] IN
        IF std.q_data # 0 /\ std.i_data # 0
            THEN LET q == ArrayCopy(h, std.q_data)
                     i == ArrayCopy(q.heap, std.i_data)
                 IN  ReferenceReturns(i.heap, q.id, i.id)
        ELSE IF std.is_q_independent
            THEN LET T == IF temperature_C = None THEN WATER_REF_TEMP_C
                          ELSE temperature_C
                     dsdw == water_dsdw(T)
                 IN  IF dsdw = Raised("ValueError") THEN ReferenceRaises(h)
                     ELSE IF n_points < 0 THEN ReferenceRaises(h)
                     ELSE LET q_arr == NewArray(h, "float64",
                                  Linspace(q_range[1], q_range[2], n_points))
                              i_arr == NewArray(q_arr.heap, "float64",
                                  [k \in 1..n_points |-> dsdw])
                          IN  ReferenceReturns(i_arr.heap, q_arr.id, i_arr.id)
        ELSE IF q_user # 0 /\ i_user # 0
            THEN LET q == AsFloat64Array(h, q_user)
                     i == AsFloat64Array(q.heap, i_user)
                 IN  ReferenceReturns(i.heap, q.id, i.id)
        ELSE ReferenceRaises(h)

\* The default q_range, (0.005, 0.50).
DefaultQRange == <<Num(5, 1000), Num(1, 2)>>

\* The water temperatures tried: None, three inside the range, its two ends
\* and the whole degrees just outside it.
TemperatureInputs ==
    {None, Num(4, 1), Num(7, 1), Num(20, 1), Num(25, 1), Num(40, 1)}
        \cup {Num(4 - e, 1) : e \in 1..MaxTempExcess}
        \cup {Num(40 + e, 1) : e \in 1..MaxTempExcess}

\* The calls of get_reference_data tried: every key with the defaults, the
\* water standard at every temperature and number of points, and the other
\* standards with and without the caller's arrays (and with a temperature,
\* which they ignore).
ReferenceCalls ==
    LET call(k, t, qu, iu, n) ==
            [standard_key |-> k, temperature_C |-> t, q_user |-> qu,
             i_user |-> iu, q_range |-> DefaultQRange, n_points |-> n]
    IN  {call(k, None, 0, 0, MaxPoints) :
             k \in {"SRM3600", "Water_20C", "Lupolen", "Custom", "srm3600", ""}}
        \cup {call("Water_20C", t, 0, 0, n) :
                 t \in TemperatureInputs, n \in (-1)..MaxPoints}
        \cup {call(k, t, qu, iu, MaxPoints) :
                 k \in {"SRM3600", "Lupolen", "Custom", "srm3600"},
                 t \in {None, Num(40 + MaxTempExcess, 1)},
                 qu \in {0} \cup DOMAIN CallerArrays,
                 iu \in {0} \cup DOMAIN CallerArrays}

\* The calls tried when the caller keeps what it is returned: every key with
\* the defaults, and "Custom" with the caller's two arrays.
RegistryCalls ==
    {[standard_key |-> k, temperature_C |-> None, q_user |-> 0, i_user |-> 0,
      q_range |-> DefaultQRange, n_points |-> MaxPoints] :
         k \in {"SRM3600", "Water_20C", "Lupolen", "srm3600"}}
        \cup {[standard_key |-> "Custom", temperature_C |-> None,
               q_user |-> 3, i_user |-> 4,
               q_range |-> DefaultQRange, n_points |-> MaxPoints]}

\* The call get_reference_data(**c); the caller holds the arrays it gets back.
GetReferenceData(c) ==
    LET r == get_reference_data(heap, c.standard_key, c.temperature_C,
                                c.q_user, c.i_user, c.q_range, c.n_points)
    IN  /\ op' = "get_reference_data"
        /\ args' = c
        /\ ret' = [raised |-> r.raised, q |-> r.q, i |-> r.i]
        /\ heap' = r.heap
        /\ held' = IF r.raised = "" THEN held \cup {r.q, r.i} ELSE held
        /\ UNCHANGED <<disk, app>>

\* A call of get_reference_data whose result the caller will not keep.
CallGetReferenceData ==
    /\ op = "idle"
    /\ \E c \in ReferenceCalls : GetReferenceData(c)

\* The call has returned and the caller lets go of what it was returned: the
\* new arrays are freed.
ReturnAndRelease ==
    /\ op # "idle"
    /\ op' = "idle"
    /\ args' = NoArgs
    /\ ret' = NoArgs
    /\ UNCHANGED <<disk, app>>
    /\ held' = DOMAIN CallerArrays
    /\ heap' = [id \in DOMAIN heap |->
                   IF id \in held \ (DOMAIN CallerArrays
                                       \cup {SRM3600_q_data, SRM3600_i_data})
                       THEN NoObject
                       ELSE heap[id]]

NextReference ==
    \/ CallGetReferenceData
    \/ ReturnAndRelease

SpecReference == Idle /\ [][NextReference]_vars

\* A call of get_reference_data whose result the caller keeps (calls wait
\* until two object ids are free).
CallGetReferenceDataAndKeep ==
    /\ op = "idle"
    /\ Cardinality(FreeIds(heap)) >= 2
    /\ \E c \in RegistryCalls : GetReferenceData(c)

\* What is left of an array once the caller has modified it in place:
\* arr[0] = 0.0, or arr[:] = 0.0.
ZeroFirst(data) == [k \in 1..Len(data) |-> IF k = 1 THEN Num(0, 1) ELSE data[k]]
ZeroAll(data) == [k \in 1..Len(data) |-> Num(0, 1)]

\* The caller modifies in place an array it holds.
CallerWrites ==
    /\ op = "idle"
    /\ \E id \in held :
          \E written \in {ZeroFirst(heap[id].data), ZeroAll(heap[id].data)} :
              /\ written # heap[id].data
              /\ heap' = [heap EXCEPT ![id].data = written]
    /\ UNCHANGED <<op, args, ret, held, disk, app>>

\* The caller lets go of the arrays it was returned; they are freed, unless
\* the registry refers to them as well.
CallerDrops ==
    /\ op = "idle"
    /\ held # DOMAIN CallerArrays
    /\ held' = DOMAIN CallerArrays
    /\ heap' = [id \in DOMAIN heap |->
                   IF id \in held \ (DOMAIN CallerArrays
                                       \cup {SRM3600_q_data, SRM3600_i_data})
                       THEN NoObject
                       ELSE heap[id]]
    /\ UNCHANGED <<op, args, ret, disk, app>>

NextRegistry ==
    \/ CallGetReferenceDataAndKeep
    \/ CallerWrites
    \/ CallerDrops
    \/ Return

SpecRegistry == Idle /\ [][NextRegistry]_vars

\* The keys of the registry, and those of its user-provided standards.
RegistryKeys == {"SRM3600", "Water_20C", "Lupolen", "Custom"}
UserProvidedKeys == {"Lupolen", "Custom"}

\* The temperature of a call is given and lies outside 4..40 degrees.
TemperatureOutOfRange(t) ==
    t # None /\ (t.n < 4 * t.d \/ t.n > 40 * t.d)

\* The call returned a pair of arrays.
ReturnsPair ==
    /\ ret.raised = ""
    /\ ret.q \in DOMAIN heap /\ heap[ret.q].alloc
    /\ ret.i \in DOMAIN heap /\ heap[ret.i].alloc

\* C13 as stated: get_reference_data raises ValueError for a key that is
\* not in the registry, for "Lupolen" and "Custom" when q_user or i_user is
\* not supplied, and for the water standard when the temperature is outside
\* 4..40 degrees; in every other case it returns a (q, i) pair and raises
\* nothing.  Violated: the water standard with a negative n_points raises
\* ValueError as well (np.linspace refuses a negative number of samples).
C13_RaisesAsWritten ==
    op = "get_reference_data" =>
        LET must_raise ==
                \/ args.standard_key \notin RegistryKeys
                \/ /\ args.standard_key \in UserProvidedKeys
                   /\ (args.q_user = 0 \/ args.i_user = 0)
                \/ /\ args.standard_key = "Water_20C"
                   /\ TemperatureOutOfRange(args.temperature_C)
        IN  IF must_raise THEN ret.raised = "ValueError" ELSE ReturnsPair

\* C13 as amended: the same, with one more case that raises ValueError, the
\* water standard called with a negative n_points; and for a user-provided
\* standard with both arrays supplied the pair returned holds exactly the
\* values supplied.
C13_Raises ==
    op = "get_reference_data" =>
        LET must_raise ==
                \/ args.standard_key \notin RegistryKeys
                \/ /\ args.standard_key \in UserProvidedKeys
                   /\ (args.q_user = 0 \/ args.i_user = 0)
                \/ /\ args.standard_key = "Water_20C"
                   /\ \/ TemperatureOutOfRange(args.temperature_C)
                      \/ args.n_points < 0
        IN  /\ IF must_raise THEN ret.raised = "ValueError" ELSE ReturnsPair
            /\ (/\ args.standard_key \in UserProvidedKeys
                /\ args.q_user # 0
                /\ args.i_user # 0)
                  => /\ heap[ret.q].data = heap[args.q_user].data
                     /\ heap[ret.i].data = heap[args.i_user].data

\* "Custom" with both arrays supplied, the second an int64 array: the values
\* come back in a float64 array of their own; and water at 41 degrees raises.
C13_Witness ==
    \/ /\ op = "get_reference_data"
       /\ args.standard_key = "Custom"
       /\ args.q_user = 3
       /\ args.i_user = 4
       /\ ret.raised = ""
       /\ ret.q = 3
       /\ ret.i # 4
       /\ heap[ret.i].data = heap[4].data
    \/ /\ op = "get_reference_data"
       /\ args.standard_key = "Water_20C"
       /\ args.temperature_C = [tag |-> "num", n |-> 41, d |-> 1]
       /\ args.n_points = 2
       /\ ret.raised = "ValueError"

\* C14: the registry is read-only through its accessor.  After any sequence
\* of get_reference_data calls, and any in-place modification by the caller
\* of the arrays those calls returned, the arrays of the registry are the
\* 15-point tabulated curve, and get_reference_data("SRM3600") returns that
\* curve, in arrays that are copies and not the registry's own.
C14_RegistryReadOnly ==
    /\ Len(NIST_SRM3600_DATA) = 15
    /\ heap[STANDARD_REGISTRY["SRM3600"].q_data]
           = NdArray("float64", Column(NIST_SRM3600_DATA, 1))
    /\ heap[STANDARD_REGISTRY["SRM3600"].i_data]
           = NdArray("float64", Column(NIST_SRM3600_DATA, 2))
    /\ held \cap {STANDARD_REGISTRY["SRM3600"].q_data,
                  STANDARD_REGISTRY["SRM3600"].i_data} = {}
    /\ (op = "get_reference_data" /\ args.standard_key = "SRM3600") =>
           /\ ret.raised = ""
           /\ heap[ret.q].data = Column(NIST_SRM3600_DATA, 1)
           /\ heap[ret.i].data = Column(NIST_SRM3600_DATA, 2)
           /\ Len(heap[ret.q].data) = 15

\* The caller has written to both arrays of an earlier SRM3600 call and
\* still holds them; a new call returns the tabulated curve.
C14_Witness ==
    /\ op = "get_reference_data"
    /\ args.standard_key = "SRM3600"
    /\ heap[ret.q].data = Column(NIST_SRM3600_DATA, 1)
    /\ \E a \in held \ {ret.q, ret.i} :
          /\ Len(heap[a].data) = 15
          /\ heap[a].data[1] = [tag |-> "num", n |-> 0, d |-> 1]
          /\ heap[a].data[15] = NIST_SRM3600_DATA[15][1]
    /\ \E b \in held \ {ret.q, ret.i} :
          /\ Len(heap[b].data) = 15
          /\ heap[b].data = ZeroAll(Column(NIST_SRM3600_DATA, 2))

(***************************************************************************)
(* core/calibration.py: estimate_k_factor_robust                           *)
(***************************************************************************)

\* The longest shared grid tried, and the largest min_points.
MaxGridLen == 4
MaxMinPoints == 3

\* The messages of the ValueErrors raised.
\* "q and intensity shape mismatch"
MSG_SHAPE ==
    <<"q", " ", "a", "n", "d", " ", "i", "n", "t", "e", "n", "s", "i", "t",
      "y", " ", "s", "h", "a", "p", "e", " ", "m", "i", "s", "m", "a", "t",
      "c", "h">>

\* "insufficient valid points"
MSG_VALID ==
    <<"i", "n", "s", "u", "f", "f", "i", "c", "i", "e", "n", "t", " ", "v",
      "a", "l", "i", "d", " ", "p", "o", "i", "n", "t", "s">>

\* "insufficient unique q points"
MSG_UNIQUE ==
    <<"i", "n", "s", "u", "f", "f", "i", "c", "i", "e", "n", "t", " ", "u",
      "n", "i", "q", "u", "e", " ", "q", " ", "p", "o", "i", "n", "t", "s">>

\* "reference q/intensity shape mismatch"
MSG_REF_SHAPE ==
    <<"r", "e", "f", "e", "r", "e", "n", "c", "e", " ", "q", "/", "i", "n",
      "t", "e", "n", "s", "i", "t", "y", " ", "s", "h", "a", "p", "e", " ",
      "m", "i", "s", "m", "a", "t", "c", "h">>

\* "reference points in q window are insufficient"
MSG_WINDOW ==
    <<"r", "e", "f", "e", "r", "e", "n", "c", "e", " ", "p", "o", "i", "n",
      "t", "s", " ", "i", "n", " ", "q", " ", "w", "i", "n", "d", "o", "w",
      " ", "a", "r", "e", " ", "i", "n", "s", "u", "f", "f", "i", "c", "i",
      "e", "n", "t">>

\* "q overlap with reference is insufficient"
MSG_OVERLAP ==
    <<"q", " ", "o", "v", "e", "r", "l", "a", "p", " ", "w", "i", "t", "h",
      " ", "r", "e", "f", "e", "r", "e", "n", "c", "e", " ", "i", "s", " ",
      "i", "n", "s", "u", "f", "f", "i", "c", "i", "e", "n", "t">>

\* "measured signal too weak or non-positive in overlap region"
MSG_SIGNAL ==
    <<"m", "e", "a", "s", "u", "r", "e", "d", " ", "s", "i", "g", "n", "a",
      "l", " ", "t", "o", "o", " ", "w", "e", "a", "k", " ", "o", "r", " ",
      "n", "o", "n", "-", "p", "o", "s", "i", "t", "i", "v", "e", " ", "i",
      "n", " ", "o", "v", "e", "r", "l", "a", "p", " ", "r", "e", "g", "i",
      "o", "n">>

\* "insufficient valid ratio points for robust K estimation"
MSG_RATIOS ==
    <<"i", "n", "s", "u", "f", "f", "i", "c", "i", "e", "n", "t", " ", "v",
      "a", "l", "i", "d", " ", "r", "a", "t", "i", "o", " ", "p", "o", "i",
      "n", "t", "s", " ", "f", "o", "r", " ", "r", "o", "b", "u", "s", "t",
      " ", "K", " ", "e", "s", "t", "i", "m", "a", "t", "i", "o", "n">>

\* "estimated K factor is non-positive"
MSG_NONPOSITIVE ==
    <<"e", "s", "t", "i", "m", "a", "t", "e", "d", " ", "K", " ", "f", "a",
      "c", "t", "o", "r", " ", "i", "s", " ", "n", "o", "n", "-", "p", "o",
      "s", "i", "t", "i", "v", "e">>

\* x < y and x <= y of two floats: false when either is NaN.
FloatLess(x, y) ==
    /\ x.tag # "nan" /\ y.tag # "nan"
    /\ \/ x.tag = "num" /\ y.tag = "num" /\ Less(x, y)
       \/ x.tag = "ninf" /\ y.tag # "ninf"
       \/ y.tag = "inf" /\ x.tag # "inf"
FloatLessEq(x, y) ==
    /\ x.tag # "nan" /\ y.tag # "nan"
    /\ (FloatLess(x, y) \/ x = y)

\* x / y of two floats of which x is finite, as numpy divides.
FloatDiv(x, y) ==
    IF y.tag = "nan" THEN NaN
    ELSE IF y.tag \in {"inf", "ninf"} THEN Num(0, 1)
    ELSE IF y.n # 0 THEN DivF(x, y)
    ELSE IF x.n = 0 THEN NaN
    ELSE IF x.n > 0 THEN PosInf
    ELSE NegInf

\* arr[mask]: the items of arr at the positions where mask is true.
Masked(arr, mask) ==
    LET idx == SelectSeq([k \in 1..Len(arr) |-> k], LAMBDA k : mask[k])
    IN  [j \in 1..Len(idx) |-> arr[idx[j]]]

\* np.sort of an array of finite floats.
RECURSIVE InsertSorted(_, _)
InsertSorted(x, s) ==
    IF s = <<>> THEN <<x>>
    ELSE IF LessEq(x, Head(s)) THEN <<x>> \o s
    ELSE <<Head(s)>> \o InsertSorted(x, Tail(s))

RECURSIVE NpSort(_)
NpSort(s) == IF s = <<>> THEN <<>> ELSE InsertSorted(Head(s), NpSort(Tail(s)))

\* np.unique: the distinct values, ascending.
RECURSIVE Dedup(_)
Dedup(s) ==
    IF Len(s) <= 1 THEN s
    ELSE IF s[1] = s[2] THEN Dedup(Tail(s))
    ELSE <<s[1]>> \o Dedup(Tail(s))

NpUnique(s) == Dedup(NpSort(s))

RECURSIVE NpSum(_)
NpSum(s) == IF s = <<>> THEN Num(0, 1) ELSE AddF(Head(s), NpSum(Tail(s)))

\* np.nanmin and np.nanmax of a non-empty array of finite floats.
NpMin(s) == NpSort(s)[1]
NpMax(s) == NpSort(s)[Len(s)]

\* Mutant of NpMedian: the mean.
NpMedian_Mean(s) == DivF(NpSum(s), Num(Len(s), 1))

\* np.nanmedian of a non-empty array of finite floats.
NpMedian(s) ==
    LET sorted == NpSort(s)
        n == Len(s)
    IN  IF n % 2 = 1 THEN sorted[(n + 1) \div 2]
        ELSE DivF(AddF(sorted[n \div 2], sorted[n \div 2 + 1]), Num(2, 1))

AbsF(x) == Num(Abs(x.n), x.d)

\* np.nanstd(s) ** 2 of a non-empty array of finite floats (the standard
\* deviation itself is the square root of this).
NpVariance(s) ==
    LET mean == DivF(NpSum(s), Num(Len(s), 1))
        sq == [k \in 1..Len(s) |-> Mul(SubF(s[k], mean), SubF(s[k], mean))]
    IN  DivF(NpSum(sq), Num(Len(s), 1))

\* Mutant of NpInterp: the line is drawn from the right-hand neighbour's
\* abscissa.
NpInterp_FromRightKnot(x, xp, fp) ==
    IF LessEq(x, xp[1]) THEN fp[1]
    ELSE IF LessEq(xp[Len(xp)], x) THEN fp[Len(xp)]
    ELSE LET j == CHOOSE k \in 1..(Len(xp) - 1) :
                      LessEq(xp[k], x) /\ Less(x, xp[k + 1])
             slope == DivF(SubF(fp[j + 1], fp[j]), SubF(xp[j + 1], xp[j]))
         IN  AddF(Mul(slope, SubF(x, xp[j + 1])), fp[j])

\* np.interp(x, xp, fp) for a finite x and xp ascending, non-empty: the end
\* values outside of xp, linear between two neighbours inside.
NpInterp(x, xp, fp) ==
    IF LessEq(x, xp[1]) THEN fp[1]
    ELSE IF LessEq(xp[Len(xp)], x) THEN fp[Len(xp)]
    ELSE LET j == CHOOSE k \in 1..(Len(xp) - 1) :
                      LessEq(xp[k], x) /\ Less(x, xp[k + 1])
             slope == DivF(SubF(fp[j + 1], fp[j]), SubF(xp[j + 1], xp[j]))
         IN  AddF(Mul(slope, SubF(x, xp[j])), fp[j])

\* What _regularize_profile and estimate_k_factor_robust end with.
ProfileRaises(message) == [raised |-> message, q |-> <<>>, i |-> <<>>]
ProfileReturns(q, i) == [raised |-> <<>>, q |-> q, i |-> i]

\* _regularize_profile, from the finite rows (q_arr, i_arr) on.
RegularizeUnique(q_arr, i_arr, uq, min_points) ==
    IF Len(uq) < min_points THEN ProfileRaises(MSG_UNIQUE)
    ELSE ProfileReturns(uq,
             [g \in 1..Len(uq) |->
                 LET grp == Masked(i_arr, [k \in 1..Len(q_arr) |-> q_arr[k] = uq[g]])
                 IN  DivF(NpSum(grp), Num(Len(grp), 1))])

RegularizeFinite(q_arr, i_arr, min_points) ==
    IF Len(q_arr) < min_points THEN ProfileRaises(MSG_VALID)
    ELSE RegularizeUnique(q_arr, i_arr, NpUnique(q_arr), min_points)

\* np.isfinite(q) & np.isfinite(i)
FiniteRows(q, i) == [k \in 1..Len(q) |-> q[k].tag = "num" /\ i[k].tag = "num"]

\* _regularize_profile
regularize_profile(q, i, min_points) ==
    IF Len(q) # Len(i) THEN ProfileRaises(MSG_SHAPE)
    ELSE RegularizeFinite(Masked(q, FiniteRows(q, i)), Masked(i, FiniteRows(q, i)),
                          min_points)

KFactorRaises(message) ==
    [raised |-> message, k_factor |-> None, k_std_squared |-> None,
     q_min_overlap |-> None, q_max_overlap |-> None,
     points_total |-> 0, points_used |-> 0, ratios_used |-> <<>>]

KFactorEstimationResult(k_factor, k_std_squared, q_min_overlap, q_max_overlap, points_total, points_used, ratios_used) ==
    [raised |-> <<>>, k_factor |-> k_factor, k_std_squared |-> k_std_squared,
     q_min_overlap |-> q_min_overlap, q_max_overlap |-> q_max_overlap,
     points_total |-> points_total, points_used |-> points_used,
     ratios_used |-> ratios_used]

\* 3.0 * (1.4826 * r_mad)
ThreeSigma(r_mad) == Mul(Num(3, 1), Mul(Num(14826, 10000), r_mad))

\* The ratios kept by the median/MAD filter (calibration.py, lines 159-166).
AbsDeviations(ratios, r_med) ==
    [k \in 1..Len(ratios) |-> AbsF(SubF(ratios[k], r_med))]

\* Mutant of InliersOf: the inliers are taken however few they are.
InliersOf_NoMinimum(ratios, deviations, r_mad, min_points) ==
    IF r_mad.n > 0
        THEN Masked(ratios, [k \in 1..Len(ratios) |->
                                LessEq(deviations[k], ThreeSigma(r_mad))])
        ELSE ratios

InliersOf(ratios, deviations, r_mad, min_points) ==
    LET kept == Masked(ratios, [k \in 1..Len(ratios) |->
                                   LessEq(deviations[k], ThreeSigma(r_mad))])
    IN  IF r_mad.n > 0 /\ Len(kept) >= min_points THEN kept ELSE ratios

RobustAround(ratios, deviations, min_points) ==
    InliersOf(ratios, deviations, NpMedian(deviations), min_points)

RobustRatios(ratios, min_points) ==
    RobustAround(ratios, AbsDeviations(ratios, NpMedian(ratios)), min_points)

\* estimate_k_factor_robust from the regularized measured profile (q_m, i_m)
\* on (calibration.py, lines 124-181), stage by stage: the result for the
\* ratios used; for the positive finite ratios; for the reference in the
\* overlap and the measured profile interpolated onto it; for the reference
\* in the overlap; for the reference in the window; for the reference.
EstimateFromUsed(ratios_used, k_val, q_min, q_max, points_total) ==
    IF k_val.n <= 0 THEN KFactorRaises(MSG_NONPOSITIVE)
    ELSE KFactorEstimationResult(k_val, NpVariance(ratios_used), q_min, q_max,
             points_total, Len(ratios_used), ratios_used)

EstimateFromKept(ratios_used, q_min, q_max, points_total) ==
    EstimateFromUsed(ratios_used, NpMedian(ratios_used), q_min, q_max,
                     points_total)

EstimateFromRatios(ratios, q_min, q_max, points_total, min_points) ==
    IF Len(ratios) < min_points THEN KFactorRaises(MSG_RATIOS)
    ELSE EstimateFromKept(RobustRatios(ratios, min_points), q_min, q_max,
                          points_total)

\* i_ref_used[valid] / i_meas_interp[valid]
Ratios(num, den) ==
    [k \in 1..Len(num) |->
        IF num[k].tag = "num" THEN FloatDiv(num[k], den[k]) ELSE num[k]]

\* np.isfinite(ratios) & (ratios > 0)
PositiveFinite(ratios) ==
    [k \in 1..Len(ratios) |-> ratios[k].tag = "num" /\ ratios[k].n > 0]

EstimateFromQuotients(ratios_0, q_min, q_max, points_total, min_points) ==
    EstimateFromRatios(Masked(ratios_0, PositiveFinite(ratios_0)), q_min, q_max,
                       points_total, min_points)

EstimateFromValid(i_ref_used, i_meas_interp, valid, q_min, q_max, min_points) ==
    IF Len(Masked(valid, valid)) < min_points THEN KFactorRaises(MSG_SIGNAL)
    ELSE EstimateFromQuotients(
             Ratios(Masked(i_ref_used, valid), Masked(i_meas_interp, valid)),
             q_min, q_max, Len(i_ref_used), min_points)

\* np.isfinite(i_meas_interp) & (i_meas_interp > positive_floor)
AboveFloor(i_meas_interp, positive_floor) ==
    [k \in 1..Len(i_meas_interp) |-> FloatLess(positive_floor, i_meas_interp[k])]

EstimateFromInterp(i_ref_used, i_meas_interp, q_min, q_max, positive_floor, min_points) ==
    EstimateFromValid(i_ref_used, i_meas_interp,
                      AboveFloor(i_meas_interp, positive_floor),
                      q_min, q_max, min_points)

EstimateFromOverlap(q_m, i_m, q_ref_used, i_ref_used, q_min, q_max, positive_floor, min_points) ==
    IF Len(q_ref_used) < min_points THEN KFactorRaises(MSG_OVERLAP)
    ELSE EstimateFromInterp(i_ref_used,
             [k \in 1..Len(q_ref_used) |-> NpInterp(q_ref_used[k], q_m, i_m)],
             q_min, q_max, positive_floor, min_points)

\* (q_ref_all >= lo) & (q_ref_all <= hi)
Between(q_ref_all, lo, hi) ==
    [k \in 1..Len(q_ref_all) |->
        FloatLessEq(lo, q_ref_all[k]) /\ FloatLessEq(q_ref_all[k], hi)]

EstimateBetween(q_m, i_m, q_ref_all, i_ref_all, q_min, q_max, positive_floor, min_points) ==
    EstimateFromOverlap(q_m, i_m,
        Masked(q_ref_all, Between(q_ref_all, q_min, q_max)),
        Masked(i_ref_all, Between(q_ref_all, q_min, q_max)),
        q_min, q_max, positive_floor, min_points)

EstimateFromWindow(q_m, i_m, q_ref_all, i_ref_all, positive_floor, min_points) ==
    IF Len(q_ref_all) < min_points THEN KFactorRaises(MSG_WINDOW)
    ELSE EstimateBetween(q_m, i_m, q_ref_all, i_ref_all,
             NpMax(<<NpMin(q_m), NpMin(q_ref_all)>>),
             NpMin(<<NpMax(q_m), NpMax(q_ref_all)>>),
             positive_floor, min_points)

EstimateFromReference(q_m, i_m, q_ref_all, i_ref_all, q_window, positive_floor, min_points) ==
    IF Len(q_ref_all) # Len(i_ref_all) THEN KFactorRaises(MSG_REF_SHAPE)
    ELSE EstimateFromWindow(q_m, i_m,
             Masked(q_ref_all, Between(q_ref_all, q_window[1], q_window[2])),
             Masked(i_ref_all, Between(q_ref_all, q_window[1], q_window[2])),
             positive_floor, min_points)

EstimateFromProfile(q_m, i_m, q_ref, i_ref, q_window, positive_floor, min_points) ==
    IF q_ref.isnull \/ i_ref.isnull
        THEN EstimateFromReference(q_m, i_m, Column(NIST_SRM3600_DATA, 1),
                 Column(NIST_SRM3600_DATA, 2), q_window, positive_floor,
                 min_points)
        ELSE EstimateFromReference(q_m, i_m, q_ref.data, i_ref.data, q_window,
                 positive_floor, min_points)

\* estimate_k_factor_robust once _regularize_profile has returned or raised.
EstimateFromRegular(reg, q_ref, i_ref, q_window, positive_floor, min_points) ==
    IF reg.raised # <<>> THEN KFactorRaises(reg.raised)
    ELSE EstimateFromProfile(reg.q, reg.i, q_ref, i_ref, q_window,
                             positive_floor, min_points)

\* Mutant of estimate_k_factor_robust: the measured profile is regularized
\* with no minimum, so that too few measured points show up at a later stage.
estimate_k_factor_robust_NoMeasuredMinimum(q_meas, i_meas_per_cm, q_ref, i_ref, q_window, positive_floor, min_points) ==
    EstimateFromRegular(regularize_profile(q_meas, i_meas_per_cm, 1), q_ref,
                        i_ref, q_window, positive_floor, min_points)

\* estimate_k_factor_robust (q_ref and i_ref are arrays, or None: isnull).
estimate_k_factor_robust(q_meas, i_meas_per_cm, q_ref, i_ref, q_window, positive_floor, min_points) ==
    EstimateFromRegular(regularize_profile(q_meas, i_meas_per_cm, min_points),
                        q_ref, i_ref, q_window, positive_floor, min_points)

\* An optional array argument.
NoArray == [isnull |-> TRUE, data |-> <<>>]
SomeArray(data) == [isnull |-> FALSE, data |-> data]

\* q in hundredths, and arrays of them and of whole intensities.
Hundredths(ks) == [j \in 1..Len(ks) |-> Num(ks[j], 100)]
Whole(ks) == [j \in 1..Len(ks) |-> Num(ks[j], 1)]
Scaled(arr, factor) == [j \in 1..Len(arr) |-> Mul(arr[j], factor)]

\* The default q_window, (0.01, 0.2).
DefaultQWindow == <<Num(1, 100), Num(2, 10)>>

\* The shared grids tried: the first n of six q values inside the default
\* window, and one grid out of order; with the measured intensities on them.
GridQ == <<1, 2, 5, 10, 15, 20>>
GridI == <<4, 2, 6, 8, 10, 12>>

CleanProfiles ==
    {[q |-> Hundredths(SubSeq(GridQ, 1, n)), i |-> Whole(SubSeq(GridI, 1, n))] :
         n \in 1..MaxGridLen}
        \cup {[q |-> Hundredths(<<5, 1, 2>>), i |-> Whole(<<6, 4, 2>>)]}

\* The K_true tried.
KTrueInputs == {Num(2, 1), Num(5, 2), Num(1, 2)}

\* The positive_floor tried.
FloorInputs == {Num(0, 1), Num(1, 1)}

KCall(q_meas, i_meas, q_ref, i_ref, q_window, positive_floor, min_points) ==
    [q_meas |-> q_meas, i_meas_per_cm |-> i_meas, q_ref |-> q_ref,
     i_ref |-> i_ref, q_window |-> q_window,
     positive_floor |-> positive_floor, min_points |-> min_points]

\* Clean calls: the reference is K_true times the measured intensity on the
\* shared grid.
CleanCalls ==
    {KCall(p.q, p.i, SomeArray(p.q), SomeArray(Scaled(p.i, K)),
           DefaultQWindow, fl, mp) :
         p \in CleanProfiles, K \in KTrueInputs, fl \in FloorInputs,
         mp \in 1..MaxMinPoints}

\* The measured intensities with the one at position j multiplied by factor.
Corrupted(arr, j, factor) ==
    [k \in 1..Len(arr) |-> IF k = j THEN Mul(arr[k], factor) ELSE arr[k]]

\* Clean calls with one measured point corrupted by a factor of 10, up or
\* down.
CorruptedCalls ==
    {KCall(p.q, Corrupted(p.i, j, f), SomeArray(p.q), SomeArray(Scaled(p.i, K)),
           DefaultQWindow, fl, mp) :
         p \in {c \in CleanProfiles : Len(c.q) >= 2},
         j \in {1, 2}, f \in {Num(10, 1), Num(1, 10)},
         K \in KTrueInputs, fl \in FloorInputs, mp \in 1..MaxMinPoints}

\* Measured profiles of every kind: outside the reference, non-positive,
\* with non-finite items and duplicates, too short, of unequal lengths.
MeasuredInputs ==
    {[q |-> Hundredths(<<30, 31, 32>>), i |-> Whole(<<1, 2, 3>>)],
     [q |-> Hundredths(<<1, 2, 5, 10>>), i |-> Whole(<<-1, -2, -1, -3>>)],
     [q |-> Hundredths(<<1, 2, 5, 10>>), i |-> Whole(<<4, 0, 4, 4>>)],
     [q |-> Hundredths(<<1, 1, 2>>) \o <<NaN>>, i |-> Whole(<<4, 6, 2, 1>>)],
     [q |-> Hundredths(<<1, 2, 5>>), i |-> <<PosInf, NaN>> \o Whole(<<6>>)],
     [q |-> Hundredths(<<1, 2, 5>>), i |-> Whole(<<4, 2>>)]}

\* References: the built-in one (None), one outside the default window, one
\* with non-positive and NaN intensities, one of unequal lengths.
ReferenceInputs ==
    {[q |-> NoArray, i |-> NoArray],
     [q |-> SomeArray(Hundredths(<<1, 2, 5, 10>>)), i |-> NoArray],
     [q |-> SomeArray(Hundredths(<<30, 31, 32>>)),
      i |-> SomeArray(Whole(<<1, 2, 3>>))],
     [q |-> SomeArray(Hundredths(<<1, 2, 5, 10>>)),
      i |-> SomeArray(Whole(<<0, -2>>) \o <<NaN>> \o Whole(<<8>>))],
     [q |-> SomeArray(Hundredths(<<1, 2, 5>>)),
      i |-> SomeArray(Whole(<<8, 4>>))]}

\* Windows: the default one, a narrow one, an empty one.
WindowInputs ==
    {DefaultQWindow, <<Num(2, 100), Num(5, 100)>>, <<Num(5, 100), Num(1, 100)>>}

\* Calls whose ratios scatter (2, 2.1, 20, 1.9, 2.2, 1.8 on the first n grid
\* points), so that the median/MAD filter has something to reject.
ScatteredI == <<20, 21, 200, 19, 22, 18>>

ScatteredCalls ==
    {KCall(Hundredths(SubSeq(GridQ, 1, n)), [k \in 1..n |-> Num(10, 1)],
           SomeArray(Hundredths(SubSeq(GridQ, 1, n))),
           SomeArray(Whole(SubSeq(ScatteredI, 1, n))),
           DefaultQWindow, Num(0, 1), mp) :
         n \in 3..MaxGridLen, mp \in 1..MaxMinPoints}

OtherCalls ==
    {KCall(m.q, m.i, r.q, r.i, w, fl, mp) :
         m \in MeasuredInputs, r \in ReferenceInputs, w \in WindowInputs,
         fl \in FloorInputs, mp \in 1..MaxMinPoints}

CallEstimateKFactorRobust ==
    /\ op = "idle"
    /\ UNCHANGED <<heap, held, disk, app>>
    /\ \E c \in CleanCalls \cup CorruptedCalls \cup ScatteredCalls \cup OtherCalls :
            /\ op' = "estimate_k_factor_robust"
            /\ args' = c
            /\ ret' = estimate_k_factor_robust(c.q_meas, c.i_meas_per_cm,
                          c.q_ref, c.i_ref, c.q_window, c.positive_floor,
                          c.min_points)

NextCalibration ==
    \/ CallEstimateKFactorRobust
    \/ Return

SpecCalibration == Idle /\ [][NextCalibration]_vars

\* y = K * x, x / 10 * K and x * 10 * K of finite floats.
IsKTimes(y, K, x) == y.n * (K.d * x.d) = y.d * (K.n * x.n)

\* The call's reference is given on the measured q grid itself: distinct
\* finite q values inside q_window, at least min_points of them, with every
\* measured intensity finite and, but at the positions in exempt, above
\* positive_floor.
SharedGrid(exempt) ==
    /\ ~args.q_ref.isnull /\ ~args.i_ref.isnull
    /\ args.q_ref.data = args.q_meas
    /\ Len(args.i_meas_per_cm) = Len(args.q_meas)
    /\ Len(args.i_ref.data) = Len(args.q_meas)
    /\ Len(args.q_meas) >= args.min_points
    /\ \A k \in 1..Len(args.q_meas) :
          /\ args.q_meas[k].tag = "num"
          /\ FloatLessEq(args.q_window[1], args.q_meas[k])
          /\ FloatLessEq(args.q_meas[k], args.q_window[2])
          /\ \A l \in 1..Len(args.q_meas) : l # k => args.q_meas[l] # args.q_meas[k]
          /\ args.i_meas_per_cm[k].tag = "num"
          /\ (k \in exempt
                \/ FloatLess(args.positive_floor, args.i_meas_per_cm[k]))
          /\ args.i_ref.data[k].tag = "num"

OnSharedGrid == SharedGrid({})

\* The reference is K times the measured intensity at every point but j
\* (j = 0: at every point).
ReferenceIsKTimesMeasuredBut(j, K) ==
    \A k \in 1..Len(args.q_meas) :
        k # j => IsKTimes(args.i_ref.data[k], K, args.i_meas_per_cm[k])

\* The measured point j is 10 times, or a tenth of, what K makes of the
\* reference there.
MeasuredCorruptedAt(j, K) ==
    \/ IsKTimes(args.i_ref.data[j], K, Mul(args.i_meas_per_cm[j], Num(1, 10)))
    \/ IsKTimes(args.i_ref.data[j], K, Mul(args.i_meas_per_cm[j], Num(10, 1)))

\* The K of the point k: i_ref / i_meas there.
KAt(k) == DivF(args.i_ref.data[k], args.i_meas_per_cm[k])

\* a is within 10% of K (K > 0).
WithinTenPercent(a, K) ==
    /\ a.tag = "num"
    /\ 10 * Abs(a.n * K.d - K.n * a.d) <= K.n * a.d

\* C15: when the reference is exactly K_true times the measured intensity on
\* a shared q grid of at least min_points points inside q_window, with every
\* measured value above positive_floor, estimate_k_factor_robust returns
\* k_factor = K_true and points_used = points_total (no point is rejected).
C15_CleanDataExact ==
    (/\ op = "estimate_k_factor_robust"
     /\ OnSharedGrid
     /\ KAt(1).n > 0
     /\ ReferenceIsKTimesMeasuredBut(0, KAt(1)))
        => /\ ret.raised = <<>>
           /\ ret.k_factor = KAt(1)
           /\ ret.points_used = ret.points_total
           /\ ret.points_total = Len(args.q_meas)

\* The grid 0.05, 0.01, 0.02 with K_true = 2.5: all three points are used.
C15_Witness ==
    /\ op = "estimate_k_factor_robust"
    /\ OnSharedGrid
    /\ ReferenceIsKTimesMeasuredBut(0, KAt(1))
    /\ args.q_meas[1] = [tag |-> "num", n |-> 1, d |-> 20]
    /\ args.min_points = 3
    /\ ret.k_factor = [tag |-> "num", n |-> 5, d |-> 2]
    /\ ret.points_used = 3
    /\ ret.points_total = 3

\* C16 as stated: in the clean setup (a shared grid of at least min_points
\* points, every clean measured value above positive_floor) with exactly one
\* measured point corrupted by a factor of 10, k_factor is within 10% of
\* K_true.  Violated with min_points <= 2 on a grid of two points (the
\* median of K_true and K_true / 10 is 0.55 K_true), and on a grid of
\* min_points points when the corrupted value falls to positive_floor or
\* below (the call raises).
C16_OutlierAsWritten ==
    op = "estimate_k_factor_robust" =>
        \A j \in 1..Len(args.q_meas) :
            \A k \in 1..Len(args.q_meas) :
                (/\ SharedGrid({j})
                 /\ k # j
                 /\ KAt(k).n > 0
                 /\ ReferenceIsKTimesMeasuredBut(j, KAt(k))
                 /\ MeasuredCorruptedAt(j, KAt(k))
                 /\ Less(args.positive_floor, DivF(args.i_ref.data[j], KAt(k))))
                    => /\ ret.raised = <<>>
                       /\ WithinTenPercent(ret.k_factor, KAt(k))

\* C16 as amended: the same on a shared grid of at least min_points points
\* and at least 3 points, the corrupted value being above positive_floor as
\* well.
C16_Outlier ==
    (/\ op = "estimate_k_factor_robust"
     /\ OnSharedGrid
     /\ Len(args.q_meas) >= 3) =>
        \A j \in 1..Len(args.q_meas) :
            \A k \in 1..Len(args.q_meas) :
                (/\ k # j
                 /\ KAt(k).n > 0
                 /\ ReferenceIsKTimesMeasuredBut(j, KAt(k))
                 /\ MeasuredCorruptedAt(j, KAt(k)))
                    => /\ ret.raised = <<>>
                       /\ WithinTenPercent(ret.k_factor, KAt(k))

\* Three points, the second measured ten times too high, K_true = 2: the
\* k_factor is 2.
C16_Witness ==
    /\ op = "estimate_k_factor_robust"
    /\ OnSharedGrid
    /\ Len(args.q_meas) = 3
    /\ args.min_points = 3
    /\ ReferenceIsKTimesMeasuredBut(2, KAt(1))
    /\ MeasuredCorruptedAt(2, KAt(1))
    /\ args.i_meas_per_cm[2] = [tag |-> "num", n |-> 20, d |-> 1]
    /\ KAt(1) = [tag |-> "num", n |-> 2, d |-> 1]
    /\ ret.k_factor = [tag |-> "num", n |-> 2, d |-> 1]

\* The words that name the stages in the messages.
WORD_POINTS == <<"p", "o", "i", "n", "t", "s">>
WORD_REFERENCE == <<"r", "e", "f", "e", "r", "e", "n", "c", "e">>
WORD_WINDOW == <<"w", "i", "n", "d", "o", "w">>
WORD_OVERLAP == <<"o", "v", "e", "r", "l", "a", "p">>
WORD_SIGNAL == <<"s", "i", "g", "n", "a", "l">>
WORD_RATIO == <<"r", "a", "t", "i", "o">>

\* The number of points that reach each stage of the call in args, and the
\* message the first stage with fewer than min_points points must be
\* reported with.
C17_Stages ==
    LET q == args.q_meas
        i == args.i_meas_per_cm
        qr == IF args.q_ref.isnull \/ args.i_ref.isnull
                  THEN Column(NIST_SRM3600_DATA, 1) ELSE args.q_ref.data
        ir == IF args.q_ref.isnull \/ args.i_ref.isnull
                  THEN Column(NIST_SRM3600_DATA, 2) ELSE args.i_ref.data
        measured == {k \in 1..Len(q) : q[k].tag = "num" /\ i[k].tag = "num"}
        measured_q == {q[k] : k \in measured}
        windowed == {k \in 1..Len(qr) :
                        /\ FloatLessEq(args.q_window[1], qr[k])
                        /\ FloatLessEq(qr[k], args.q_window[2])}
        lowest(S) == CHOOSE x \in S : \A y \in S : LessEq(x, y)
        highest(S) == CHOOSE x \in S : \A y \in S : LessEq(y, x)
        windowed_q == {qr[k] : k \in windowed}
        lo == IF Less(lowest(measured_q), lowest(windowed_q))
                  THEN lowest(windowed_q) ELSE lowest(measured_q)
        hi == IF Less(highest(measured_q), highest(windowed_q))
                  THEN highest(measured_q) ELSE highest(windowed_q)
        overlapping == IF measured_q = {} \/ windowed_q = {} THEN {}
                       ELSE {k \in windowed :
                                LessEq(lo, qr[k]) /\ LessEq(qr[k], hi)}
        profile == regularize_profile(q, i, 0)
        at(k) == NpInterp(qr[k], profile.q, profile.i)
        strong == {k \in overlapping : Less(args.positive_floor, at(k))}
        positive == {k \in strong :
                        ir[k].tag = "num" /\ ir[k].n * at(k).n > 0}
    IN  [measured |-> Cardinality(measured_q),
         windowed |-> Cardinality(windowed),
         disjoint |-> /\ measured_q # {}
                      /\ windowed_q # {}
                      /\ \/ Less(highest(measured_q), lowest(windowed_q))
                         \/ Less(highest(windowed_q), lowest(measured_q)),
         overlapping |-> Cardinality(overlapping),
         nowhere_positive |-> \A k \in overlapping : at(k).n <= 0,
         strong |-> Cardinality(strong),
         positive |-> Cardinality(positive)]

\* C17: estimate_k_factor_robust checks its stages in a fixed order (valid
\* measured points, reference points inside q_window, reference points
\* inside the q overlap, interpolated measured values above positive_floor,
\* positive finite ratios) and raises ValueError at the first stage that has
\* fewer than min_points points, with a message naming that stage; a measured
\* q range that does not intersect the windowed reference raises one
\* mentioning "overlap", and a measured signal that is non-positive
\* throughout the overlap raises one mentioning "signal".
C17_StageOrder ==
    (/\ op = "estimate_k_factor_robust"
     /\ Len(args.q_meas) = Len(args.i_meas_per_cm)
     /\ (args.q_ref.isnull \/ args.i_ref.isnull
            \/ Len(args.q_ref.data) = Len(args.i_ref.data))) =>
        LET mp == args.min_points
            n == C17_Stages
        IN  IF n.measured < mp
                THEN InsideStr(WORD_POINTS, ret.raised)
                         /\ ~InsideStr(WORD_REFERENCE, ret.raised)
                         /\ ~InsideStr(WORD_RATIO, ret.raised)
            ELSE IF n.windowed < mp THEN InsideStr(WORD_WINDOW, ret.raised)
            ELSE IF n.overlapping < mp THEN InsideStr(WORD_OVERLAP, ret.raised)
            ELSE IF n.strong < mp THEN InsideStr(WORD_SIGNAL, ret.raised)
            ELSE IF n.positive < mp THEN InsideStr(WORD_RATIO, ret.raised)
            ELSE /\ ret.raised = <<>>
                 /\ ~n.disjoint
                 /\ ~n.nowhere_positive

\* Both cases C17 names: the measured profile 0.30..0.32 against the
\* built-in reference ("overlap"), and a negative measured profile against
\* it ("signal").
C17_Witness ==
    /\ op = "estimate_k_factor_robust"
    /\ args.q_ref.isnull
    /\ args.min_points = 3
    /\ Len(args.q_meas) = Len(args.i_meas_per_cm)
    /\ C17_Stages.measured >= 3
    /\ C17_Stages.windowed >= 3
    /\ \/ /\ C17_Stages.disjoint
          /\ ret.raised = MSG_OVERLAP
       \/ /\ C17_Stages.overlapping >= 3
          /\ C17_Stages.nowhere_positive
          /\ ret.raised = MSG_SIGNAL

\* The valid ratios of a call whose reference is given on the measured grid:
\* i_ref / i_meas where the measured value is above positive_floor and the
\* ratio is positive, in the order of the reference.
ValidRatios ==
    LET valid == SelectSeq([k \in 1..Len(args.q_meas) |-> k],
                     LAMBDA k : /\ FloatLess(args.positive_floor, args.i_meas_per_cm[k])
                                /\ args.i_meas_per_cm[k].n > 0
                                /\ args.i_ref.data[k].n > 0)
    IN  [j \in 1..Len(valid) |-> KAt(valid[j])]

\* The ratios of s within 3 * 1.4826 * mad of med.
WithinThreeSigma(s, med, mad) ==
    SelectSeq(s, LAMBDA r : LessEq(AbsF(SubF(r, med)),
                                   Mul(Num(3 * 14826, 10000), mad)))

\* The median of the absolute deviations of s from its median.
MedianAbsDeviation(s) ==
    NpMedian([k \in 1..Len(s) |-> AbsF(SubF(s[k], NpMedian(s)))])

\* C26: on every successful return of estimate_k_factor_robust, ratios_used
\* is the complete set of valid ratios, or its subset within 3 * 1.4826 * MAD
\* of the median when MAD > 0 and that subset has at least min_points
\* members; min_points <= points_used <= points_total, ratios_used has
\* points_used entries, k_factor > 0 and q_min_overlap <= q_max_overlap.
C26_RatiosUsed ==
    (op = "estimate_k_factor_robust" /\ ret.raised = <<>>) =>
        /\ args.min_points <= ret.points_used
        /\ ret.points_used <= ret.points_total
        /\ Len(ret.ratios_used) = ret.points_used
        /\ ret.k_factor.tag = "num"
        /\ ret.k_factor.n > 0
        /\ LessEq(ret.q_min_overlap, ret.q_max_overlap)
        /\ SharedGrid(1..Len(args.q_meas)) =>
               LET subset == WithinThreeSigma(ValidRatios, NpMedian(ValidRatios),
                                 MedianAbsDeviation(ValidRatios))
               IN  ret.ratios_used =
                       IF /\ MedianAbsDeviation(ValidRatios).n > 0
                          /\ Len(subset) >= args.min_points
                           THEN subset ELSE ValidRatios

\* The ratios 2, 2.1, 20, 1.9 with min_points = 3: the filter rejects 20 and
\* the three others are used.
C26_Witness ==
    /\ op = "estimate_k_factor_robust"
    /\ ret.raised = <<>>
    /\ SharedGrid(1..Len(args.q_meas))
    /\ args.min_points = 3
    /\ Len(ValidRatios) = 4
    /\ MedianAbsDeviation(ValidRatios).n > 0
    /\ ret.points_total = 4
    /\ ret.points_used = 3
    /\ ret.k_factor = [tag |-> "num", n |-> 2, d |-> 1]

\* The ratios 2, 2.1, 20 with min_points = 3: only two are inliers, and all
\* three are kept.
C26_FullSetKept ==
    /\ op = "estimate_k_factor_robust"
    /\ ret.raised = <<>>
    /\ SharedGrid(1..Len(args.q_meas))
    /\ args.min_points = 3
    /\ MedianAbsDeviation(ValidRatios).n > 0
    /\ Len(WithinThreeSigma(ValidRatios, NpMedian(ValidRatios),
                             MedianAbsDeviation(ValidRatios))) = 2
    /\ ret.points_used = 3

(***************************************************************************)
(* io/parsers.py: read_external_1d_profile, read_cansas1d_xml and          *)
(* read_nxcansas_h5; io/writers.py: write_cansas1d_xml, write_nxcansas_h5. *)
(*                                                                         *)
(* disk is the file at the path the caller names (NoFile when there is     *)
(* none).  A file is kept as what its parser makes of it: a canSAS         *)
(* document is its Idata elements, an HDF5 file its groups in the order    *)
(* the reader walks them, a text file the data frames pandas.read_csv      *)
(* returns for the three ways the reader tries.  The text of a number is   *)
(* the decimal it denotes.                                                 *)
(***************************************************************************)

\* The longest column, dataset or list of Idata elements tried.
MaxRows == 3

\* The significant digits of the format "{:.8g}".
SIG_DIGITS == 8

\* An element or dataset that is not there, and an element without text.
Absent == [tag |-> "absent", n |-> 0, d |-> 1]
EmptyText == [tag |-> "empty", n |-> 0, d |-> 1]

\* float(text) succeeds: the text is that of a number, "nan" or "inf".
FloatParses(text) == text.tag \in {"num", "nan", "inf", "ninf"}

CANSAS_NS == "urn:cansas1d:1.1"

\* a sorts before b under np.argsort: ascending, NaN last.
SortsBefore(a, b) ==
    \/ a.tag # "nan" /\ b.tag = "nan"
    \/ FloatLess(a, b)

\* np.argsort(x), as the indices 1..Len(x); items that compare equal keep
\* their order.
RECURSIVE ArgInsert(_, _, _)
ArgInsert(x, k, order) ==
    IF order = <<>> THEN <<k>>
    ELSE IF SortsBefore(x[k], x[Head(order)]) THEN <<k>> \o order
    ELSE <<Head(order)>> \o ArgInsert(x, k, Tail(order))

RECURSIVE ArgSortUpTo(_, _)
ArgSortUpTo(x, n) ==
    IF n = 0 THEN <<>> ELSE ArgInsert(x, n, ArgSortUpTo(x, n - 1))

ArgSort(x) == ArgSortUpTo(x, Len(x))

\* arr[order]: IndexError when an index is beyond the array.
TakeRaises(arr, order) == \E k \in 1..Len(order) : order[k] > Len(arr)
Take(arr, order) == [k \in 1..Len(order) |-> arr[order[k]]]

\* np.full_like(x, np.nan)
FullNaN(x) == [k \in 1..Len(x) |-> NaN]

\* What a reader returns: the profile dict, or the exception raised; tried
\* lists the readers that were run for it, in order.
ReaderRaises(exception) ==
    [raised |-> exception, tried |-> <<>>, x |-> <<>>, i_rel |-> <<>>,
     err_rel |-> <<>>, x_col |-> <<>>, i_col |-> <<>>, err_col |-> <<>>]

ProfileDict(x, i_rel, err_rel, x_col, i_col, err_col) ==
    [raised |-> "", tried |-> <<>>, x |-> x, i_rel |-> i_rel,
     err_rel |-> err_rel, x_col |-> x_col, i_col |-> i_col,
     err_col |-> err_col]

\* The dict the readers end with: x[order], i_rel[order] and err[order].
SortedBy(x, i_rel, err, order, x_col, i_col, err_col) ==
    IF TakeRaises(i_rel, order) \/ TakeRaises(err, order)
        THEN ReaderRaises("IndexError")
    ELSE ProfileDict(Take(x, order), Take(i_rel, order), Take(err, order),
                     x_col, i_col, err_col)

SortedProfile(x, i_rel, err, x_col, i_col, err_col) ==
    SortedBy(x, i_rel, err, ArgSort(x), x_col, i_col, err_col)

\* The q_vals, i_vals and e_vals read_cansas1d_xml collects from the Idata
\* elements in the namespace ns.
RECURSIVE CollectIdata(_, _)
CollectIdata(idata, ns) ==
    IF idata = <<>> THEN [q |-> <<>>, i |-> <<>>, e |-> <<>>]
    ELSE LET el == Head(idata)
             rest == CollectIdata(Tail(idata), ns)
         IN  IF el.ns # ns \/ el.Q = Absent \/ el.I = Absent THEN rest
             ELSE IF ~FloatParses(el.Q) THEN rest
             ELSE IF ~FloatParses(el.I)
                 THEN [rest EXCEPT !.q = <<el.Q>> \o rest.q]
             ELSE [q |-> <<el.Q>> \o rest.q,
                   i |-> <<el.I>> \o rest.i,
                   e |-> <<IF FloatParses(el.Idev) THEN el.Idev ELSE NaN>>
                             \o rest.e]

ProfileOfIdata(vals) ==
    IF Len(vals.q) < 2 THEN ReaderRaises("ValueError")
    ELSE SortedProfile(vals.q, vals.i,
             IF vals.e # <<>> THEN vals.e ELSE FullNaN(vals.q),
             <<"Q">>, <<"I">>, <<"I", "d", "e", "v">>)

read_cansas1d_xml(file) ==
    IF file.kind = "missing" THEN ReaderRaises("FileNotFoundError")
    ELSE IF file.kind # "xml" THEN ReaderRaises("ParseError")
    ELSE IF ~file.wellformed THEN ReaderRaises("ParseError")
    ELSE ProfileOfIdata(CollectIdata(file.idata, file.root_ns))

\* _find_sasdata: the first group, in the order the groups are walked, that
\* is a SASdata group and has the datasets Q and I.
IsSasData(group) ==
    /\ group.canSAS_class = "SASdata" \/ StartsWith(group.name, <<"s", "a", "s", "d", "a", "t", "a">>)
    /\ ~group.Q.isnull
    /\ ~group.I.isnull

ProfileOfGroup(group) ==
    SortedProfile(group.Q.data, group.I.data,
        IF ~group.Idev.isnull THEN group.Idev.data ELSE FullNaN(group.Q.data),
        <<"Q">>, <<"I">>,
        IF ~group.Idev.isnull THEN <<"I", "d", "e", "v">> ELSE <<>>)

read_nxcansas_h5(file, h5py) ==
    IF ~h5py THEN ReaderRaises("ImportError")
    ELSE IF file.kind = "missing" THEN ReaderRaises("FileNotFoundError")
    ELSE IF file.kind # "hdf5" THEN ReaderRaises("OSError")
    ELSE IF \A g \in 1..Len(file.groups) : ~IsSasData(file.groups[g])
        THEN ReaderRaises("ValueError")
    ELSE ProfileOfGroup(file.groups[
             CHOOSE g \in 1..Len(file.groups) :
                 /\ IsSasData(file.groups[g])
                 /\ \A h \in 1..(g - 1) : ~IsSasData(file.groups[h])])

\* The number of finite items of a column.
FiniteCount(values) == Cardinality({k \in 1..Len(values) : IsFinite(values[k])})

\* pick(tokens, used): the first column outside used whose name, stripped,
\* lowered and without "_" and " ", contains one of the tokens; 0 when there
\* is none.
ColumnName(name) ==
    StrReplaceChar(StrReplaceChar(StrLower(StrStrip(name)), "_", <<>>), " ", <<>>)

pick(frame, cols, tokens, used) ==
    LET hits == {c \in 1..Len(cols) :
                    /\ cols[c] \notin used
                    /\ \E t \in tokens :
                           InsideStr(t, ColumnName(frame[cols[c]].name))}
    IN  IF hits = {} THEN 0 ELSE cols[MinOf(hits)]

\* next(c for c in cols if c not in used), 0 when there is none.
NextColumn(cols, used) ==
    LET free == {c \in 1..Len(cols) : cols[c] \notin used}
    IN  IF free = {} THEN 0 ELSE cols[MinOf(free)]

X_TOKENS == {<<"q">>, <<"c", "h", "i">>, <<"r", "a", "d", "i", "a", "l">>, <<"2", "t", "h", "e", "t", "a">>, <<"x">>}
I_TOKENS == {<<"i", "n", "t", "e", "n", "s", "i", "t", "y">>, <<"i", "r", "e", "l">>, <<"i", "a", "b", "s">>, <<"s", "i", "g", "n", "a", "l">>, <<"c", "o", "u", "n", "t">>, <<"i">>}
ERR_TOKENS == {<<"e", "r", "r", "o", "r">>, <<"s", "i", "g", "m", "a">>, <<"s", "t", "d">>, <<"u", "n", "c">>}

\* The candidate profile the text parser makes of one data frame: pts is -1
\* when the frame is passed over.
NoCandidate == [pts |-> -1, profile |-> ReaderRaises("ValueError")]

\* The loop body of read_external_1d_profile (parsers.py, lines 183-246),
\* stage by stage: the candidate for the rows kept; for the columns chosen;
\* for x_col and i_col; for x_col; for the numeric columns; for the frame.
CandidateOfRows(x, i_rel, err, x_col, i_col, err_col) ==
    IF Len(x) < 3 THEN NoCandidate
    ELSE [pts |-> Len(x),
          profile |-> SortedProfile(x, i_rel, err, x_col, i_col, err_col)]

\* np.where(np.isfinite(err), err, np.nan)
FiniteOrNaN(err) == [k \in 1..Len(err) |-> IF IsFinite(err[k]) THEN err[k] ELSE NaN]

CandidateOfMask(frame, x_col, i_col, err_col, mask) ==
    CandidateOfRows(Masked(frame[x_col].values, mask),
        Masked(frame[i_col].values, mask),
        IF err_col # 0 THEN FiniteOrNaN(Masked(frame[err_col].values, mask))
                       ELSE FullNaN(Masked(frame[i_col].values, mask)),
        frame[x_col].name, frame[i_col].name,
        IF err_col # 0 THEN frame[err_col].name ELSE <<>>)

\* np.isfinite(x) & np.isfinite(i_rel)
FiniteMask(x_all, i_all) ==
    [k \in 1..Len(x_all) |-> IsFinite(x_all[k]) /\ IsFinite(i_all[k])]

CandidateOfColumns(frame, x_col, i_col, err_col) ==
    CandidateOfMask(frame, x_col, i_col, err_col,
                    FiniteMask(frame[x_col].values, frame[i_col].values))

ErrColumn(cols, err_picked, used) ==
    IF err_picked = 0 /\ Len(cols) >= 3 THEN NextColumn(cols, used)
    ELSE err_picked

CandidateOfXI(frame, cols, x_col, i_col) ==
    IF i_col = 0 THEN NoCandidate
    ELSE CandidateOfColumns(frame, x_col, i_col,
             ErrColumn(cols, pick(frame, cols, ERR_TOKENS, {x_col, i_col}),
                       {x_col, i_col}))

IColumn(cols, i_picked, used) ==
    IF i_picked # 0 THEN i_picked ELSE NextColumn(cols, used)

CandidateOfX(frame, cols, x_col) ==
    CandidateOfXI(frame, cols, x_col,
        IColumn(cols, pick(frame, cols, I_TOKENS, {x_col}), {x_col}))

XColumn(cols, x_picked) == IF x_picked # 0 THEN x_picked ELSE cols[1]

CandidateOfNumeric(frame, cols) ==
    IF Len(cols) < 2 THEN NoCandidate
    ELSE CandidateOfX(frame, cols, XColumn(cols, pick(frame, cols, X_TOKENS, {})))

FrameCandidate(frame) ==
    CandidateOfNumeric(frame,
        SelectSeq([c \in 1..Len(frame) |-> c],
                  LAMBDA c : FiniteCount(frame[c].values) >= 3))

\* The best of the candidates so far and those of the frames that follow: a
\* later one replaces it only when it has more points.
\* Mutant of Better: a later candidate with as many points wins.
Better_LaterWinsTie(candidate, best) ==
    IF candidate.pts >= best.pts THEN candidate ELSE best

Better(candidate, best) == IF candidate.pts > best.pts THEN candidate ELSE best

RECURSIVE BestCandidate(_, _)
BestCandidate(frames, best) ==
    IF frames = <<>> THEN best
    ELSE BestCandidate(Tail(frames), Better(FrameCandidate(Head(frames)), best))

\* The generic text parser (the rest of read_external_1d_profile): pandas
\* gets no data frame out of a file that is not there, nor a table of
\* numbers out of markup or HDF5 data.
ProfileOfBest(best) ==
    IF best.pts = -1 THEN ReaderRaises("ValueError") ELSE best.profile

ProfileOfFrames(dfs) ==
    IF dfs = <<>> THEN ReaderRaises("ValueError")
    ELSE ProfileOfBest(BestCandidate(dfs, NoCandidate))

ReadDelimitedText(file) ==
    ProfileOfFrames(IF file.kind = "text"
                        THEN SelectSeq(file.frames,
                                 LAMBDA df : Len(df) >= 2 /\ Len(df[1].values) >= 1)
                        ELSE <<>>)

\* Path(path).suffix: the last component of the path from its last ".", "" if
\* that is its first or its last character or there is none.
LastIndexOf(str, c) ==
    LET at == {k \in 1..Len(str) : str[k] = c}
    IN  IF at = {} THEN 0 ELSE CHOOSE k \in at : \A l \in at : l <= k

PathName(path) == SubSeq(path, LastIndexOf(path, "/") + 1, Len(path))

PathSuffix(path) ==
    LET name == PathName(path)
        dot == LastIndexOf(name, ".")
    IN  IF 1 < dot /\ dot < Len(name) THEN SubSeq(name, dot, Len(name)) ELSE <<>>

H5_EXTENSIONS == {<<".", "h", "5">>, <<".", "h", "d", "f", "5">>, <<".", "h", "d", "f">>, <<".", "n", "x", "s">>}

Tried(result, readers) == [result EXCEPT !.tried = readers]

read_external_1d_profile_H5FallsBack(path, file, h5py) ==
    LET ext == StrLower(PathSuffix(path))
        xml == read_cansas1d_xml(file)
        h5 == read_nxcansas_h5(file, h5py)
    IN  IF ext = <<".", "x", "m", "l">> /\ xml.raised = ""
            THEN Tried(xml, <<"read_cansas1d_xml">>)
        ELSE IF ext = <<".", "x", "m", "l">>
            THEN Tried(ReadDelimitedText(file), <<"read_cansas1d_xml", "text">>)
        ELSE IF ext \in H5_EXTENSIONS /\ h5.raised = ""
            THEN Tried(h5, <<"read_nxcansas_h5">>)
        ELSE IF ext \in H5_EXTENSIONS
            THEN Tried(ReadDelimitedText(file), <<"read_nxcansas_h5", "text">>)
        ELSE Tried(ReadDelimitedText(file), <<"text">>)

read_external_1d_profile(path, file, h5py) ==
    LET ext == StrLower(PathSuffix(path))
        xml == read_cansas1d_xml(file)
    IN  IF ext = <<".", "x", "m", "l">> /\ xml.raised = ""
            THEN Tried(xml, <<"read_cansas1d_xml">>)
        ELSE IF ext = <<".", "x", "m", "l">>
            THEN Tried(ReadDelimitedText(file), <<"read_cansas1d_xml", "text">>)
        ELSE IF ext \in H5_EXTENSIONS
            THEN Tried(read_nxcansas_h5(file, h5py), <<"read_nxcansas_h5">>)
        ELSE Tried(ReadDelimitedText(file), <<"text">>)

\* round(n / d) to the nearest integer, ties to even (n >= 0, d > 0).
RoundHalfEven(n, d) ==
    LET q == n \div d
        r == n % d
    IN  IF 2 * r > d \/ (2 * r = d /\ q % 2 = 1) THEN q + 1 ELSE q

\* The least k >= from with n * 10^k >= 10^(digits - 1) * d  (n > 0).
RECURSIVE DecimalShift(_, _, _, _)
DecimalShift(n, d, digits, from) ==
    IF n * Pow10(from) >= Pow10(digits - 1) * d THEN from
    ELSE DecimalShift(n, d, digits, from + 1)

\* x is a decimal of at most that many significant digits.
IsShortDecimal(x, digits) ==
    \E j \in 0..9 :
        /\ Pow10(j) % x.d = 0
        /\ Abs(x.n) * (Pow10(j) \div x.d) < Pow10(digits)

\* float(f"{x:.<digits>g}"): x rounded to that many significant digits; nan
\* and inf are written and read back as they are.
FormatG_FiveDigits(x, digits) ==
    IF x.tag # "num" \/ x.n = 0 \/ IsShortDecimal(x, 5) THEN x
    ELSE LET k == DecimalShift(Abs(x.n), x.d, 5, 0)
             m == RoundHalfEven(Abs(x.n) * Pow10(k), x.d)
         IN  Num((IF x.n < 0 THEN -1 ELSE 1) * m, Pow10(k))

FormatG(x, digits) ==
    IF x.tag # "num" \/ x.n = 0 \/ IsShortDecimal(x, digits) THEN x
    ELSE LET k == DecimalShift(Abs(x.n), x.d, digits, 0)
             m == RoundHalfEven(Abs(x.n) * Pow10(k), x.d)
         IN  Num((IF x.n < 0 THEN -1 ELSE 1) * m, Pow10(k))

\* What a writer returns (the path), or the exception it raised, and the
\* file it leaves at the path.
WriterRaises(exception, file) == [raised |-> exception, file |-> file]
WriterReturns(file) == [raised |-> "", file |-> file]

\* An Idata element of the namespace ns.
Idata(ns, Q, I, Idev) == [ns |-> ns, Q |-> Q, I |-> I, Idev |-> Idev]

\* A canSAS document.
XmlFile(wellformed, root_ns, idata) ==
    [kind |-> "xml", wellformed |-> wellformed, root_ns |-> root_ns,
     idata |-> idata]

write_cansas1d_xml(file, q, i_abs, err) ==
    IF Len(i_abs) < Len(q) \/ (~err.isnull /\ Len(err.data) < Len(q))
        THEN WriterRaises("IndexError", file)
    ELSE WriterReturns(XmlFile(TRUE, CANSAS_NS,
             [idx \in 1..Len(q) |->
                 Idata(CANSAS_NS, FormatG(q[idx], SIG_DIGITS),
                       FormatG(i_abs[idx], SIG_DIGITS),
                       IF ~err.isnull /\ IsFinite(err.data[idx])
                           THEN FormatG(err.data[idx], SIG_DIGITS)
                           ELSE Absent)]))

\* A group of an HDF5 file: its canSAS_class attribute, its name and its
\* datasets Q, I and Idev.
Group(canSAS_class, name, Q, I, Idev) ==
    [canSAS_class |-> canSAS_class, name |-> name, Q |-> Q, I |-> I,
     Idev |-> Idev]

H5File(groups) == [kind |-> "hdf5", groups |-> groups]

write_nxcansas_h5(file, q, i_abs, err, h5py) ==
    IF ~h5py THEN WriterRaises("ImportError", file)
    ELSE WriterReturns(H5File(
             <<Group("", <<>>, NoArray, NoArray, NoArray),
               Group("SASentry", <<"s", "a", "s", "e", "n", "t", "r", "y", "0", "1">>, NoArray, NoArray, NoArray),
               Group("SASdata", <<"s", "a", "s", "d", "a", "t", "a", "0", "1">>, SomeArray(q), SomeArray(i_abs),
                     err)>>))

(***************************************************************************)
(* The files and paths the readers are given.                              *)
(***************************************************************************)

\* All the arrays of 0 to n items of S.
RECURSIVE ArraysUpTo(_, _)
ArraysUpTo(S, n) ==
    IF n = 0 THEN {<<>>}
    ELSE LET shorter == ArraysUpTo(S, n - 1)
         IN  shorter \cup {Append(a, v) : a \in {b \in shorter : Len(b) = n - 1},
                                          v \in S}

\* The first n of the intensities 5, 6, 7, ...
Intensities(n) == [k \in 1..n |-> Num(4 + k, 1)]

Column2(name, values) == [name |-> name, values |-> values]

TextFile(frames) == [kind |-> "text", frames |-> frames]

\* Text files of one table with the columns q and I, the q values being
\* any of 0.01, 0.02 and a cell that is not a number.
TableFiles ==
    {TextFile(<<<<Column2(<<"q">>, xs), Column2(<<"I">>, Intensities(Len(xs)))>>>>) :
         xs \in ArraysUpTo({Num(1, 100), Num(1, 50), NaN}, MaxRows)}

\* Text files as the three read strategies see them.  With a header row
\* "q I" and three rows of numbers, the first two strategies return the
\* table and the third one (header=None) a table whose first row is the
\* header, which is no number.  Without a header row the first two take the
\* first row of numbers for the header.  And a table whose first strategy
\* keeps the most valid rows.
WithHeader == <<Column2(<<"q">>, Hundredths(<<3, 1, 2>>)), Column2(<<"I">>, Whole(<<7, 5, 6>>))>>
HeaderAsRow == <<Column2(<<"0">>, <<NaN>> \o Hundredths(<<3, 1, 2>>)), Column2(<<"1">>, <<NaN>> \o Whole(<<7, 5, 6>>))>>
FirstRowAsHeader == <<Column2(<<"0", ".", "0", "4">>, Hundredths(<<3, 1, 2>>)), Column2(<<"8">>, Whole(<<7, 5, 6>>))>>
NoHeader == <<Column2(<<"0">>, Hundredths(<<4, 3, 1, 2>>)), Column2(<<"1">>, Whole(<<8, 7, 5, 6>>))>>
Gapped == <<Column2(<<"0">>, Hundredths(<<4, 3, 1>>) \o <<NaN>>), Column2(<<"1">>, Whole(<<8, 7, 5, 6>>))>>

StrategyFiles ==
    {TextFile(<<WithHeader, WithHeader, HeaderAsRow>>),
     TextFile(<<FirstRowAsHeader, FirstRowAsHeader, NoHeader>>),
     TextFile(<<NoHeader, Gapped>>)}

\* Text files with columns to pick from, without a header row, for which
\* pandas returns two data frames, and with nothing pandas can read.
OtherTextFiles ==
    {TextFile(<<>>),
     TextFile(<<<<Column2(<<"0">>, Hundredths(<<3, 1, 2>>)),
                  Column2(<<"1">>, Whole(<<7, 5, 6>>)),
                  Column2(<<"2">>, <<Num(1, 2), PosInf, NaN>>)>>>>),
     TextFile(<<<<Column2(<<"I", "n", "t", "e", "n", "s", "i", "t", "y">>, Whole(<<7, 5, 6>>)),
                  Column2(<<"s", "i", "g", "m", "a">>, <<Num(1, 2), Num(1, 2), Num(1, 2)>>),
                  Column2(<<"Q", "_", "A", "^", "-", "1">>, Hundredths(<<3, 1, 2>>))>>>>),
     TextFile(<<<<Column2(<<"c", "h", "i">>, Hundredths(<<1, 2, 3>>)),
                  Column2(<<"l", "a", "b", "e", "l">>, <<NaN, NaN, NaN>>),
                  Column2(<<"c", "o", "u", "n", "t", "s">>, Whole(<<5, 6, 7>>))>>>>),
     TextFile(<<<<Column2(<<"q">>, Hundredths(<<1, 2>>)),
                  Column2(<<"I">>, Whole(<<5, 6>>))>>,
                <<Column2(<<"0">>, <<NaN, Num(1, 100), Num(1, 50), Num(1, 50)>>),
                  Column2(<<"1">>, <<NaN, Num(5, 1), Num(6, 1), Num(7, 1)>>)>>>>),
     TextFile(<<<<Column2(<<"q">>, Hundredths(<<1, 2, 3>>))>>>>)}
        \cup StrategyFiles


\* An Idata element with a Q and an I, and one whose I has no number.
GoodIdata(q) == Idata(CANSAS_NS, q, Num(5, 1), Num(1, 2))
BadIdata == Idata(CANSAS_NS, Num(3, 100), NotANumber, Absent)

\* canSAS documents of 0 to MaxRows such elements.
IdataFiles ==
    {XmlFile(TRUE, CANSAS_NS, els) :
         els \in ArraysUpTo({GoodIdata(Num(1, 100)), GoodIdata(Num(1, 50)),
                             BadIdata}, MaxRows)}

\* Other documents: not well-formed, without a namespace, with elements of
\* another namespace, with Q or I missing or empty, with an Idev that is
\* empty or not a number, and with text that reads as nan.
OtherXmlFiles ==
    {XmlFile(FALSE, CANSAS_NS, <<GoodIdata(Num(1, 100)), GoodIdata(Num(1, 50))>>),
     XmlFile(TRUE, "", <<Idata("", Num(1, 50), Num(6, 1), Absent),
                         Idata("", Num(1, 100), Num(5, 1), Absent)>>),
     XmlFile(TRUE, "", <<GoodIdata(Num(1, 100)), GoodIdata(Num(1, 50))>>),
     XmlFile(TRUE, CANSAS_NS,
             <<Idata(CANSAS_NS, Absent, Num(5, 1), Absent),
               Idata(CANSAS_NS, Num(1, 50), Num(6, 1), EmptyText),
               Idata(CANSAS_NS, EmptyText, Num(5, 1), Absent),
               Idata(CANSAS_NS, Num(1, 100), Num(5, 1), NotANumber),
               Idata(CANSAS_NS, Num(1, 25), Absent, Absent)>>),
     XmlFile(TRUE, CANSAS_NS,
             <<Idata(CANSAS_NS, NaN, Num(5, 1), PosInf),
               Idata(CANSAS_NS, Num(1, 50), NaN, Absent),
               Idata(CANSAS_NS, Num(1, 100), Num(7, 1), Num(1, 2))>>)}

H5Root == Group("", <<>>, NoArray, NoArray, NoArray)

\* HDF5 files with one SASdata group whose Q holds 0 to MaxRows values.
DatasetFiles ==
    {H5File(<<H5Root,
              Group("SASdata", <<"s", "a", "s", "d", "a", "t", "a", "0", "1">>, SomeArray(xs),
                    SomeArray(Intensities(Len(xs))), NoArray)>>) :
         xs \in ArraysUpTo({Num(1, 100), Num(1, 50), NaN}, MaxRows)}

\* Other HDF5 files: without a SASdata group, with one that lacks I, with a
\* group known by its name only, with two SASdata groups, and with I and
\* Idev shorter or longer than Q.
OtherH5Files ==
    {H5File(<<H5Root>>),
     H5File(<<H5Root, Group("SASentry", <<"e", "n", "t", "r", "y">>, NoArray, NoArray, NoArray)>>),
     H5File(<<H5Root,
              Group("SASdata", <<"d", "a", "t", "a">>, SomeArray(Hundredths(<<1, 2, 3>>)),
                    NoArray, NoArray)>>),
     H5File(<<H5Root,
              Group("", <<"s", "a", "s", "d", "a", "t", "a", "_", "7">>, SomeArray(Hundredths(<<3, 1, 2>>)),
                    SomeArray(Whole(<<7, 5, 6>>)),
                    SomeArray(<<Num(1, 2), PosInf, NaN>>))>>),
     H5File(<<H5Root,
              Group("SASdata", <<"f", "i", "r", "s", "t">>, SomeArray(Hundredths(<<1, 2, 3>>)),
                    SomeArray(Whole(<<5, 6, 7>>)), NoArray),
              Group("SASdata", <<"s", "e", "c", "o", "n", "d">>, SomeArray(Hundredths(<<4, 5, 6>>)),
                    SomeArray(Whole(<<8, 9, 10>>)), NoArray)>>),
     H5File(<<H5Root,
              Group("SASdata", <<"s", "h", "o", "r", "t">>, SomeArray(Hundredths(<<1, 2, 3>>)),
                    SomeArray(Whole(<<5, 6>>)), NoArray)>>),
     H5File(<<H5Root,
              Group("SASdata", <<"l", "o", "n", "g">>, SomeArray(Hundredths(<<1, 2, 3>>)),
                    SomeArray(Whole(<<5, 6, 7, 8>>)),
                    SomeArray(<<Num(1, 2)>>))>>),
     H5File(<<H5Root,
              Group("SASdata", <<"l", "o", "n", "g", "e", "r">>, SomeArray(Hundredths(<<2, 1, 3>>)),
                    SomeArray(Whole(<<5, 6, 7, 8>>)),
                    SomeArray(Whole(<<1, 2, 3, 4>>)))>>)}

ReaderFiles ==
    TableFiles \cup OtherTextFiles \cup IdataFiles \cup OtherXmlFiles
        \cup DatasetFiles \cup OtherH5Files

\* The paths the readers are called with.
PathInputs ==
    {<<"a", ".", "x", "m", "l">>, <<"A", ".", "X", "M", "L">>, <<"a", ".", "h", "5">>, <<"a", ".", "H", "D", "F", "5">>, <<"a", ".", "h", "d", "f">>, <<"r", "u", "n", ".", "1", ".", "n", "x", "s">>,
     <<"a", ".", "d", "a", "t">>, <<"a", ".", "h", "5", ".", "t", "x", "t">>, <<"a">>, <<".", "h", "5">>, <<"d", ".", "x", "m", "l", "/", "a", ".">>}

\* A file appears at the path, or replaces the one there.
FileAppears ==
    /\ op = "idle"
    /\ \E file \in ReaderFiles :
          /\ file # disk
          /\ disk' = file
    /\ UNCHANGED <<op, args, ret, heap, held, app>>

\* The file is deleted.
FileDisappears ==
    /\ op = "idle"
    /\ disk # NoFile
    /\ disk' = NoFile
    /\ UNCHANGED <<op, args, ret, heap, held, app>>

CallReadExternal1dProfile ==
    /\ op = "idle"
    /\ UNCHANGED <<heap, held, disk, app>>
    /\ \E path \in PathInputs, h5py \in BOOLEAN :
          /\ op' = "read_external_1d_profile"
          /\ args' = [path |-> path, h5py |-> h5py]
          /\ ret' = read_external_1d_profile(path, disk, h5py)

NextReaders ==
    \/ FileAppears
    \/ FileDisappears
    \/ CallReadExternal1dProfile
    \/ Return

SpecReaders == Idle /\ [][NextReaders]_vars

\* The path has the extension ext (in any case) after a name of its own.
HasExtension(path, ext) ==
    /\ EndsStr(ext, StrLower(path))
    /\ Len(PathName(path)) > Len(ext)

\* C18: read_external_1d_profile picks the reader by file extension: for
\* .h5/.hdf5/.hdf/.nxs it runs the NXcanSAS reader only, and every failure
\* of that reader (ImportError without the HDF5 library, ValueError without
\* a SASdata group) reaches the caller, the text parser not being tried; for
\* .xml it runs the canSAS reader first and on any failure the text parser;
\* every other extension goes straight to the text parser.
C18_ReaderByExtension ==
    op = "read_external_1d_profile" =>
        IF \E ext \in H5_EXTENSIONS : HasExtension(args.path, ext)
            THEN /\ ret.tried = <<"read_nxcansas_h5">>
                 /\ ret = Tried(read_nxcansas_h5(disk, args.h5py), ret.tried)
                 /\ ~args.h5py => ret.raised = "ImportError"
                 /\ (/\ args.h5py
                     /\ disk.kind = "hdf5"
                     /\ \A g \in 1..Len(disk.groups) :
                            disk.groups[g].Q.isnull \/ disk.groups[g].I.isnull)
                        => ret.raised = "ValueError"
        ELSE IF HasExtension(args.path, <<".", "x", "m", "l">>)
            THEN IF read_cansas1d_xml(disk).raised = ""
                     THEN ret = Tried(read_cansas1d_xml(disk),
                                      <<"read_cansas1d_xml">>)
                     ELSE ret = Tried(ReadDelimitedText(disk),
                                      <<"read_cansas1d_xml", "text">>)
        ELSE ret = Tried(ReadDelimitedText(disk), <<"text">>)

\* Both cases: a table of numbers named a.h5 is not read as text (the
\* NXcanSAS reader's error comes back), and one named a.xml is.
C18_Witness ==
    /\ op = "read_external_1d_profile"
    /\ disk.kind = "text"
    /\ ReadDelimitedText(disk).raised = ""
    /\ \/ /\ args.path = <<"a", ".", "h", "5">>
          /\ ret.tried = <<"read_nxcansas_h5">>
          /\ ret.raised \in {"ImportError", "OSError"}
       \/ /\ args.path = <<"a", ".", "x", "m", "l">>
          /\ ret.tried = <<"read_cansas1d_xml", "text">>
          /\ ret.raised = ""

\* The items of x are strictly ascending.
StrictlyAscending(x) ==
    \A k \in 1..(Len(x) - 1) : FloatLess(x[k], x[k + 1])

\* C19: every Scattering Profile Record returned by read_external_1d_profile
\* has x strictly ascending, without duplicate x values, and at least 3
\* points, and its intensity and error arrays are as long as x.
C19_RecordInvariant ==
    (op = "read_external_1d_profile" /\ ret.raised = "") =>
        /\ Len(ret.x) >= 3
        /\ StrictlyAscending(ret.x)
        /\ Len(ret.i_rel) = Len(ret.x)
        /\ Len(ret.err_rel) = Len(ret.x)

\* What of C19 does hold: the arrays of a record are equally long and x is
\* in argsort order (ascending, equal values side by side, NaN last).
C19_EquallyLongAndSorted ==
    (op = "read_external_1d_profile" /\ ret.raised = "") =>
        /\ Len(ret.i_rel) = Len(ret.x)
        /\ Len(ret.err_rel) = Len(ret.x)
        /\ \A k \in 1..(Len(ret.x) - 1) : ~SortsBefore(ret.x[k + 1], ret.x[k])
        /\ ret.tried = <<"text">> =>
              /\ Len(ret.x) >= 3
              /\ \A k \in 1..Len(ret.x) : IsFinite(ret.x[k])

\* The data frames of the read strategies for the file at the path, in the
\* order they are tried.
Strategies == IF disk.kind = "text" THEN disk.frames ELSE <<>>

\* The columns of a frame with at least 3 finite items, the column of a
\* name, and the rows of two columns where both are finite.
NumericColumns(frame) ==
    {c \in 1..Len(frame) : FiniteCount(frame[c].values) >= 3}

ColumnNamed(frame, name) ==
    IF \E c \in 1..Len(frame) : frame[c].name = name
        THEN CHOOSE c \in 1..Len(frame) : frame[c].name = name
        ELSE 0

ValidRows(frame, cx, ci) ==
    {k \in 1..Len(frame[cx].values) :
        IsFinite(frame[cx].values[k]) /\ IsFinite(frame[ci].values[k])}

\* The record a strategy yields is made of at least 3 valid rows of two
\* distinct numeric columns of its frame, the error column, when there is
\* one, being a third numeric column.
MadeOfDistinctColumns(frame, profile) ==
    LET cx == ColumnNamed(frame, profile.x_col)
        ci == ColumnNamed(frame, profile.i_col)
        ce == ColumnNamed(frame, profile.err_col)
    IN  /\ profile.raised = ""
        /\ Cardinality(NumericColumns(frame)) >= 2
        /\ cx \in NumericColumns(frame)
        /\ ci \in NumericColumns(frame)
        /\ cx # ci
        /\ profile.err_col # <<>> =>
               ce \in NumericColumns(frame) /\ ce # cx /\ ce # ci
        /\ Cardinality(ValidRows(frame, cx, ci)) >= 3
        /\ Len(profile.x) = Cardinality(ValidRows(frame, cx, ci))
        /\ Len(profile.i_rel) = Len(profile.x)
        /\ Len(profile.err_rel) = Len(profile.x)
        /\ \A k \in ValidRows(frame, cx, ci) :
               \E j \in 1..Len(profile.x) :
                   /\ profile.x[j] = frame[cx].values[k]
                   /\ profile.i_rel[j] = frame[ci].values[k]

\* A frame any two numeric columns of which share 3 valid rows, and there
\* are two of them: whatever columns are picked, it yields a record.
SurelyUsable(frame) ==
    /\ Cardinality(NumericColumns(frame)) >= 2
    /\ \A cx \in NumericColumns(frame) : \A ci \in NumericColumns(frame) :
           cx # ci => Cardinality(ValidRows(frame, cx, ci)) >= 3

\* C27: the generic text parser tries up to three read strategies and
\* returns the record of the one with the most valid rows, the earlier one
\* on a tie; a strategy counts only with at least 2 numeric columns and at
\* least 3 valid rows, its x, intensity and error columns are pairwise
\* distinct, and ValueError is raised only when no strategy yields a record.
C27_BestStrategy ==
    (op = "read_external_1d_profile" /\ ret.tried # <<>>
        /\ ret.tried[Len(ret.tried)] = "text") =>
        LET candidate(s) == FrameCandidate(Strategies[s])
            usable == {s \in 1..Len(Strategies) : candidate(s).pts # -1}
        IN  /\ Len(Strategies) <= 3
            /\ \A s \in 1..Len(Strategies) :
                   /\ s \in usable =>
                          /\ MadeOfDistinctColumns(Strategies[s], candidate(s).profile)
                          /\ candidate(s).pts = Len(candidate(s).profile.x)
                   /\ SurelyUsable(Strategies[s]) => s \in usable
            /\ usable = {} => ret.raised = "ValueError"
            /\ usable # {} =>
                   \E s \in usable :
                       /\ ret = Tried(candidate(s).profile, ret.tried)
                       /\ \A t \in usable :
                              /\ candidate(t).pts <= candidate(s).pts
                              /\ t < s => candidate(t).pts < candidate(s).pts

\* A table with the header row "q I": all three strategies keep 3 valid
\* rows, and the record is that of the first, with the columns q and I.
C27_Witness ==
    /\ op = "read_external_1d_profile"
    /\ ret.tried = <<"text">>
    /\ Len(Strategies) = 3
    /\ \A s \in 1..3 : FrameCandidate(Strategies[s]).pts = 3
    /\ FrameCandidate(Strategies[3]).profile.x_col = <<"0">>
    /\ ret.raised = ""
    /\ ret.x_col = <<"q">>
    /\ ret.i_col = <<"I">>
    /\ Len(ret.x) = 3

\* A table without a header row: the third strategy keeps 4 valid rows, one
\* more than the first two, and its record is returned.
C27_LaterStrategyWins ==
    /\ op = "read_external_1d_profile"
    /\ ret.tried = <<"text">>
    /\ Len(Strategies) = 3
    /\ FrameCandidate(Strategies[1]).pts = 3
    /\ ret.x_col = <<"0">>
    /\ Len(ret.x) = 4

(***************************************************************************)
(* Writing profiles and reading them back.                                 *)
(***************************************************************************)

\* The q arrays written: the first 0 to MaxRows of the values 0.01, 1/3,
\* 2/3, 3/4, 1, those in descending order, and as many times 0.01.
QGrid == <<Num(1, 100), Num(1, 3), Num(2, 3), Num(3, 4), Num(1, 1)>>

WrittenQ ==
    {SubSeq(QGrid, 1, n) : n \in 0..MaxRows}
        \cup {[k \in 1..n |-> QGrid[n + 1 - k]] : n \in 2..MaxRows}
        \cup {[k \in 1..n |-> QGrid[1]] : n \in 2..MaxRows}

\* The first n of the intensities 100/3, 5, 1/7, nan, 2 and of the errors
\* 1/7, nan, 1/2, 1/3, 2.
WrittenI(n) ==
    SubSeq(<<Num(100, 3), Num(5, 1), Num(1, 7), NaN, Num(2, 1)>>, 1, n)
WrittenErr(n) ==
    SubSeq(<<Num(1, 7), NaN, Num(1, 2), Num(1, 3), Num(2, 1)>>, 1, n)

\* The profiles written: with intensities and errors as long as q, without
\* errors, with an infinite error, and with intensities one short.
WrittenProfiles ==
    UNION {{[q |-> q, i_abs |-> WrittenI(Len(q)), err |-> err] :
                err \in {NoArray, SomeArray(WrittenErr(Len(q))),
                         SomeArray([k \in 1..Len(q) |-> PosInf])}} :
               q \in WrittenQ}
        \cup {[q |-> q, i_abs |-> WrittenI(Len(q) - 1), err |-> NoArray] :
                  q \in {a \in WrittenQ : Len(a) = 2}}

CallWriteCansas1dXml ==
    /\ op = "idle"
    /\ UNCHANGED <<heap, held, app>>
    /\ \E p \in WrittenProfiles :
          LET r == write_cansas1d_xml(disk, p.q, p.i_abs, p.err)
          IN  /\ op' = "write_cansas1d_xml"
              /\ args' = [q |-> p.q, i_abs |-> p.i_abs, err |-> p.err,
                          h5py |-> TRUE]
              /\ ret' = [raised |-> r.raised]
              /\ disk' = r.file

\* The calls of write_nxcansas_h5: every profile with the HDF5 library
\* there, the profiles of q = 0.01, 1/3 without it.
H5WriteCalls ==
    {[p |-> p, h5py |-> TRUE] : p \in WrittenProfiles}
        \cup {[p |-> p, h5py |-> FALSE] :
                  p \in {w \in WrittenProfiles : w.q = <<Num(1, 100), Num(1, 3)>>}}

CallWriteNxcansasH5 ==
    /\ op = "idle"
    /\ UNCHANGED <<heap, held, app>>
    /\ \E c \in H5WriteCalls :
          LET r == write_nxcansas_h5(disk, c.p.q, c.p.i_abs, c.p.err, c.h5py)
          IN  /\ op' = "write_nxcansas_h5"
              /\ args' = [q |-> c.p.q, i_abs |-> c.p.i_abs, err |-> c.p.err,
                          h5py |-> c.h5py]
              /\ ret' = [raised |-> r.raised]
              /\ disk' = r.file

CallReadCansas1dXml ==
    /\ op = "idle"
    /\ UNCHANGED <<heap, held, disk, app>>
    /\ op' = "read_cansas1d_xml"
    /\ args' = [h5py |-> TRUE]
    /\ ret' = read_cansas1d_xml(disk)

CallReadNxcansasH5 ==
    /\ op = "idle"
    /\ UNCHANGED <<heap, held, disk, app>>
    /\ \E h5py \in BOOLEAN :
          /\ op' = "read_nxcansas_h5"
          /\ args' = [h5py |-> h5py]
          /\ ret' = read_nxcansas_h5(disk, h5py)

NextFormats ==
    \/ CallWriteCansas1dXml
    \/ CallWriteNxcansasH5
    \/ CallReadCansas1dXml
    \/ CallReadNxcansasH5
    \/ Return

SpecFormats == Idle /\ [][NextFormats]_vars

\* actual is within 1e-6 relative tolerance of desired (NaN equals NaN, an
\* infinity itself).
WithinTolerance(actual, desired) ==
    IF actual.tag = "num" /\ desired.tag = "num"
        THEN 1000000 * Abs(actual.n * desired.d - desired.n * actual.d)
                 <= Abs(desired.n) * actual.d
        ELSE actual.tag = desired.tag

\* The arrays of the call are those of a profile record: x finite and
\* strictly ascending, at least 2 points, intensities as many as x, and the
\* errors, when given, as many as x and each finite or NaN.
WritesProfileRecord ==
    /\ Len(args.q) >= 2
    /\ \A k \in 1..Len(args.q) : IsFinite(args.q[k])
    /\ StrictlyAscending(args.q)
    /\ Len(args.i_abs) = Len(args.q)
    /\ args.err.isnull
          \/ /\ Len(args.err.data) = Len(args.q)
             /\ \A k \in 1..Len(args.q) : args.err.data[k].tag \in {"num", "nan"}

\* The profile dict back has the arrays of the call, in their order, within
\* tolerance; all NaN for the errors when none were given.
ReadsBackAsWritten(back) ==
    /\ back.raised = ""
    /\ Len(back.x) = Len(args.q)
    /\ Len(back.i_rel) = Len(args.q)
    /\ Len(back.err_rel) = Len(args.q)
    /\ \A k \in 1..Len(args.q) :
          /\ WithinTolerance(back.x[k], args.q[k])
          /\ WithinTolerance(back.i_rel[k], args.i_abs[k])
          /\ IF args.err.isnull
                 THEN back.err_rel[k] = NaN
                 ELSE WithinTolerance(back.err_rel[k], args.err.data[k])

\* C20: the file write_cansas1d_xml has written for a profile reads back,
\* with read_cansas1d_xml, as x, intensity and error arrays of the same
\* length and order as the originals and within 1e-6 relative tolerance of
\* them, and likewise for write_nxcansas_h5 and read_nxcansas_h5; with the
\* error array omitted the error reads back as all NaN.  A reader returns
\* what the file on disk holds.
C20_RoundTrip ==
    /\ (op = "write_cansas1d_xml" /\ WritesProfileRecord)
           => /\ ret.raised = ""
              /\ ReadsBackAsWritten(read_cansas1d_xml(disk))
    /\ (op = "write_nxcansas_h5" /\ args.h5py /\ WritesProfileRecord)
           => /\ ret.raised = ""
              /\ ReadsBackAsWritten(read_nxcansas_h5(disk, TRUE))
    /\ op = "read_cansas1d_xml" => ret = read_cansas1d_xml(disk)
    /\ op = "read_nxcansas_h5" => ret = read_nxcansas_h5(disk, args.h5py)

\* The profile 0.01, 1/3, 2/3 written as canSAS XML without errors is on
\* disk with Q = 0.33333333 and 0.66666667, and reads back within tolerance.
C20_Witness ==
    /\ op = "write_cansas1d_xml"
    /\ WritesProfileRecord
    /\ args.err.isnull
    /\ args.q = <<Num(1, 100), Num(1, 3), Num(2, 3)>>
    /\ disk.idata[2].Q = Num(33333333, 100000000)
    /\ disk.idata[3].Q = Num(66666667, 100000000)
    /\ read_cansas1d_xml(disk).x[2] # args.q[2]
    /\ ReadsBackAsWritten(read_cansas1d_xml(disk))

(***************************************************************************)
(* core/buffer_subtraction.py: subtract_buffer.                            *)
(*                                                                         *)
(* The arrays hold finite floats and NaN.  The propagated error is kept    *)
(* as its square, err_subtracted_squared, and the standard deviation of    *)
(* the diagnostic as the variance; a standard deviation below 1e-30 is 0    *)
(* for the decimals tried.                                                  *)
(***************************************************************************)

\* The longest sample grid tried.
MaxSamplePoints == 4

\* x - y, x + y and x * y of floats that are finite or NaN.
NanSub(x, y) == IF x.tag = "num" /\ y.tag = "num" THEN SubF(x, y) ELSE NaN
NanAdd(x, y) == IF x.tag = "num" /\ y.tag = "num" THEN AddF(x, y) ELSE NaN
NanMul(x, y) == IF x.tag = "num" /\ y.tag = "num" THEN Mul(x, y) ELSE NaN

\* np.zeros_like(arr)
ZerosLike(arr) == [k \in 1..Len(arr) |-> Num(0, 1)]

\* The length two one-dimensional arrays of lengths m and n broadcast to,
\* -1 when they do not; and the item k of arr broadcast.
BroadcastLen(m, n) ==
    IF m = n THEN m ELSE IF m = 1 THEN n ELSE IF n = 1 THEN m ELSE -1

Broadcast(arr, k) == IF Len(arr) = 1 THEN arr[1] ELSE arr[k]

\* np.allclose(q_s, q_b, atol=1e-8) of two arrays of one length: at every
\* index |q_s - q_b| <= 1e-8 + 1e-5 * |q_b|.
IsClose(a, b) ==
    /\ a.tag = "num" /\ b.tag = "num"
    /\ LessEq(SubF(Mul(Num(100000, 1), AbsF(SubF(a, b))), AbsF(b)), Num(1, 1000))

AllClose(q_s, q_b) == \A k \in 1..Len(q_s) : IsClose(q_s[k], q_b[k])

\* What subtract_buffer ends with.
BufferRaises(exception) ==
    [raised |-> exception, q |-> <<>>, i_subtracted |-> <<>>,
     err_subtracted_squared |-> <<>>, alpha |-> None,
     high_q_residual_mean |-> None, high_q_check_passed |-> FALSE]

BufferSubtractionResult(q, i_subtracted, err_subtracted_squared, alpha, high_q_residual_mean, high_q_check_passed) ==
    [raised |-> "", q |-> q, i_subtracted |-> i_subtracted,
     err_subtracted_squared |-> err_subtracted_squared, alpha |-> alpha,
     high_q_residual_mean |-> high_q_residual_mean,
     high_q_check_passed |-> high_q_check_passed]

\* Mutant of check_ok: without the floor of 1e-30 under the deviation.
check_ok_NoFloor(residual_mean, residual_variance) ==
    Less(Mul(residual_mean, residual_mean), Mul(Num(9, 1), residual_variance))

\* abs(residual_mean) < 3.0 * max(residual_std, 1e-30)
check_ok(residual_mean, residual_variance) ==
    IF residual_variance.n = 0 THEN residual_mean.n = 0
    ELSE Less(Mul(residual_mean, residual_mean), Mul(Num(9, 1), residual_variance))

\* subtract_buffer (buffer_subtraction.py, lines 92-138), stage by stage:
\* the result for the residuals in the diagnostic window; for the mask; for
\* the subtracted arrays; for the buffer on the sample grid; for the arrays.
ResultFromResiduals(q_s, i_sub, err_sub_squared, alpha, residuals) ==
    BufferSubtractionResult(q_s, i_sub, err_sub_squared, alpha,
        DivF(NpSum(residuals), Num(Len(residuals), 1)),
        check_ok(DivF(NpSum(residuals), Num(Len(residuals), 1)),
                 NpVariance(residuals)))

ResultFromMask(q_s, i_sub, err_sub_squared, alpha, mask) ==
    IF Len(Masked(mask, mask)) >= 3
        THEN IF Len(mask) # Len(i_sub) THEN BufferRaises("IndexError")
             ELSE ResultFromResiduals(q_s, i_sub, err_sub_squared, alpha,
                                      Masked(i_sub, mask))
        ELSE BufferSubtractionResult(q_s, i_sub, err_sub_squared, alpha,
                                     Num(0, 1), TRUE)

\* (q_s >= q_lo) & (q_s <= q_hi) & np.isfinite(i_sub)
HighQMask(q_s, i_sub, high_q_diag) ==
    [k \in 1..BroadcastLen(Len(q_s), Len(i_sub)) |->
        /\ FloatLessEq(high_q_diag[1], Broadcast(q_s, k))
        /\ FloatLessEq(Broadcast(q_s, k), high_q_diag[2])
        /\ IsFinite(Broadcast(i_sub, k))]

ResultFromSubtracted(q_s, i_sub, err_sub_squared, alpha, high_q_diag) ==
    IF BroadcastLen(Len(q_s), Len(i_sub)) = -1 THEN BufferRaises("ValueError")
    ELSE ResultFromMask(q_s, i_sub, err_sub_squared, alpha,
                        HighQMask(q_s, i_sub, high_q_diag))

\* i_s - alpha * i_b
Subtracted(i_s, i_b, alpha) ==
    [k \in 1..BroadcastLen(Len(i_s), Len(i_b)) |->
        NanSub(Broadcast(i_s, k), NanMul(alpha, Broadcast(i_b, k)))]

\* Mutant of PropagatedSquare: alpha is not squared.
PropagatedSquare_AlphaOnce(e_s, e_b, alpha) ==
    [k \in 1..BroadcastLen(Len(e_s), Len(e_b)) |->
        NanAdd(NanMul(Broadcast(e_s, k), Broadcast(e_s, k)),
               NanMul(alpha, NanMul(Broadcast(e_b, k), Broadcast(e_b, k))))]

\* e_s ** 2 + (alpha * e_b) ** 2, the square of err_sub
PropagatedSquare(e_s, e_b, alpha) ==
    [k \in 1..BroadcastLen(Len(e_s), Len(e_b)) |->
        NanAdd(NanMul(Broadcast(e_s, k), Broadcast(e_s, k)),
               NanMul(NanMul(alpha, Broadcast(e_b, k)),
                      NanMul(alpha, Broadcast(e_b, k))))]

SubtractOnGrid(q_s, i_s, e_s, i_b, e_b, alpha, high_q_diag) ==
    IF BroadcastLen(Len(i_s), Len(i_b)) = -1 THEN BufferRaises("ValueError")
    ELSE IF BroadcastLen(Len(e_s), Len(e_b)) = -1 THEN BufferRaises("ValueError")
    ELSE ResultFromSubtracted(q_s, Subtracted(i_s, i_b, alpha),
                              PropagatedSquare(e_s, e_b, alpha), alpha,
                              high_q_diag)

\* np.interp(q_s, q_b, f_b)
InterpOnto(q_s, q_b, f_b) == [k \in 1..Len(q_s) |-> NpInterp(q_s[k], q_b, f_b)]

SubtractArrays(q_s, i_s, e_s, q_b, i_b, e_b, alpha, high_q_diag) ==
    IF Len(q_s) = Len(q_b) /\ AllClose(q_s, q_b)
        THEN SubtractOnGrid(q_s, i_s, e_s, i_b, e_b, alpha, high_q_diag)
    ELSE IF q_b = <<>> \/ Len(i_b) # Len(q_b) \/ Len(e_b) # Len(q_b)
        THEN BufferRaises("ValueError")
    ELSE SubtractOnGrid(q_s, i_s, e_s, InterpOnto(q_s, q_b, i_b),
                        InterpOnto(q_s, q_b, e_b), alpha, high_q_diag)

\* err if err is not None else np.zeros_like(i)
ErrOrZeros(err, i) == IF err.isnull THEN ZerosLike(i) ELSE err.data

subtract_buffer(q_sample, i_sample, err_sample, q_buffer, i_buffer, err_buffer, alpha, high_q_diag) ==
    SubtractArrays(q_sample, i_sample, ErrOrZeros(err_sample, i_sample),
                   q_buffer, i_buffer, ErrOrZeros(err_buffer, i_buffer),
                   alpha, high_q_diag)

\* The sample grids tried: the first 2 to MaxSamplePoints of 0.15, 0.20,
\* 0.25, 0.30, 0.35, 0.40; the default diagnostic window is (0.15, 0.25).
SampleQ == <<15, 20, 25, 30, 35, 40>>

SampleGrids == {Hundredths(SubSeq(SampleQ, 1, n)) : n \in 2..MaxSamplePoints}

\* The buffer intensity at the sample points, and the residuals the sample
\* is given over alpha times the buffer: none, a constant, a scatter around
\* zero, a scatter around 2, and one that is no number.
BufferI == <<10, 8, 6, 12, 4, 11>>

ResidualInputs ==
    {<<0, 0, 0, 0, 0, 0>>, <<3, 3, 3, 3, 3, 3>>, <<1, -1, 1, -1, 1, -1>>,
     <<3, 1, 2, 3, 1, 2>>}

AlphaInputs == {Num(1, 1), Num(1, 2), Num(3, 2)}

\* The intensities of a sample on the grid q that leave the residuals r
\* over alpha times the buffer; with a NaN in the second place.
SampleI(n, r, alpha) ==
    [k \in 1..n |-> AddF(Mul(alpha, Num(BufferI[k], 1)), Num(r[k], 1))]

WithNaN(arr) == [k \in 1..Len(arr) |-> IF k = 2 THEN NaN ELSE arr[k]]

\* The error arrays: none, or 0.3 for the sample and 0.4 for the buffer.
ErrInputs(n, e) == {NoArray, SomeArray([k \in 1..n |-> Num(e, 10)])}

\* Buffers on the sample grid itself, on a grid that is 1e-6 above it (within
\* the tolerance of np.allclose), and on the three-point grids 0.10, 0.22,
\* 0.40 and 0.18, 0.22, 0.28, the second of which leaves sample points
\* outside.
BufferCall(q_s, i_s, err_s, q_b, i_b, err_b, alpha, high_q_diag) ==
    [q_sample |-> q_s, i_sample |-> i_s, err_sample |-> err_s, q_buffer |-> q_b,
     i_buffer |-> i_b, err_buffer |-> err_b, alpha |-> alpha,
     high_q_diag |-> high_q_diag]

Shifted(q) == [k \in 1..Len(q) |-> AddF(q[k], Num(1, 1000000))]

BufferGrids(q_s) ==
    {[q |-> q_s, i |-> Whole(SubSeq(BufferI, 1, Len(q_s)))],
     [q |-> Shifted(q_s), i |-> Whole(SubSeq(BufferI, 1, Len(q_s)))],
     [q |-> Hundredths(<<10, 22, 40>>), i |-> Whole(<<12, 8, 4>>)],
     [q |-> Hundredths(<<18, 22, 28>>), i |-> Whole(<<10, 8, 7>>)]}

\* The diagnostic windows: the default one, (0.2, 0.4) and (0.1, 0.2).
DiagInputs == {<<Num(15, 100), Num(25, 100)>>, <<Num(2, 10), Num(4, 10)>>, <<Num(1, 10), Num(2, 10)>>}

CallsOn(q_s, b, alpha) ==
    {BufferCall(q_s, i_s, err_s, b.q, b.i, err_b, alpha, diag) :
         i_s \in {SampleI(Len(q_s), r, alpha) : r \in ResidualInputs}
                    \cup {WithNaN(SampleI(Len(q_s), <<1, -1, 1, -1, 1, -1>>, alpha))},
         err_s \in ErrInputs(Len(q_s), 3),
         err_b \in ErrInputs(Len(b.q), 4),
         diag \in DiagInputs}

SampleCalls ==
    UNION {UNION {UNION {CallsOn(q_s, b, alpha) : alpha \in AlphaInputs} :
                      b \in BufferGrids(q_s)} :
               q_s \in SampleGrids}

\* Calls with arrays of unequal lengths.
MalformedCalls ==
    {BufferCall(Hundredths(<<15, 20, 25>>), Whole(<<10, 8>>), NoArray,
                Hundredths(<<15, 20, 25>>), Whole(<<10, 8, 6>>), NoArray,
                Num(1, 1), <<Num(15, 100), Num(25, 100)>>),
     BufferCall(Hundredths(<<15, 20, 25>>), Whole(<<10, 8, 6>>), NoArray,
                Hundredths(<<10, 30>>), Whole(<<10, 8, 6>>), NoArray,
                Num(1, 1), <<Num(15, 100), Num(25, 100)>>),
     BufferCall(Hundredths(<<15, 20, 25>>), Whole(<<10>>), NoArray,
                Hundredths(<<15, 20, 25>>), Whole(<<10, 8, 6>>),
                SomeArray(<<Num(4, 10), Num(4, 10)>>),
                Num(1, 1), <<Num(15, 100), Num(25, 100)>>),
     BufferCall(Hundredths(<<15, 20, 25>>), Whole(<<10>>), NoArray,
                <<>>, <<>>, NoArray,
                Num(1, 1), <<Num(15, 100), Num(25, 100)>>),
     BufferCall(Hundredths(<<15, 20, 25>>), Whole(<<10>>), NoArray,
                Hundredths(<<15, 20, 25>>), Whole(<<10>>), NoArray,
                Num(1, 1), <<Num(15, 100), Num(25, 100)>>),
     BufferCall(Hundredths(<<15>>), Whole(<<10, 8, 6>>), NoArray,
                Hundredths(<<15>>), Whole(<<10, 8, 6>>), NoArray,
                Num(1, 1), <<Num(15, 100), Num(25, 100)>>)}

CallSubtractBuffer ==
    /\ op = "idle"
    /\ UNCHANGED <<heap, held, disk, app>>
    /\ \E c \in SampleCalls \cup MalformedCalls :
          /\ op' = "subtract_buffer"
          /\ args' = c
          /\ ret' = subtract_buffer(c.q_sample, c.i_sample, c.err_sample,
                        c.q_buffer, c.i_buffer, c.err_buffer, c.alpha,
                        c.high_q_diag)

NextBuffer ==
    \/ CallSubtractBuffer
    \/ Return

SpecBuffer == Idle /\ [][NextBuffer]_vars

\* The call is given a sample profile and a buffer profile: arrays of one
\* length each, with finite q values, the buffer's ascending, and alpha is
\* not 0.
SubtractsProfiles ==
    /\ op = "subtract_buffer"
    /\ Len(args.i_sample) = Len(args.q_sample)
    /\ args.err_sample.isnull \/ Len(args.err_sample.data) = Len(args.q_sample)
    /\ Len(args.q_buffer) >= 2
    /\ Len(args.i_buffer) = Len(args.q_buffer)
    /\ args.err_buffer.isnull \/ Len(args.err_buffer.data) = Len(args.q_buffer)
    /\ \A k \in 1..Len(args.q_sample) : IsFinite(args.q_sample[k])
    /\ \A k \in 1..Len(args.q_buffer) : IsFinite(args.q_buffer[k])
    /\ \A k \in 1..(Len(args.q_buffer) - 1) :
           Less(args.q_buffer[k], args.q_buffer[k + 1])

\* The error arrays of the call, a missing one counting as zeros.
SampleErr == IF args.err_sample.isnull THEN ZerosLike(args.i_sample) ELSE args.err_sample.data
BufferErr == IF args.err_buffer.isnull THEN ZerosLike(args.i_buffer) ELSE args.err_buffer.data

\* The sample point k lies within the q range of the buffer.
InsideBuffer(k) ==
    /\ LessEq(args.q_buffer[1], args.q_sample[k])
    /\ LessEq(args.q_sample[k], args.q_buffer[Len(args.q_buffer)])

\* The buffer array f_b linearly interpolated at the sample point k, which
\* lies within the q range of the buffer.
LinearAt(f_b, k) ==
    LET x == args.q_sample[k]
        xp == args.q_buffer
        j == CHOOSE l \in 1..(Len(xp) - 1) : LessEq(xp[l], x) /\ LessEq(x, xp[l + 1])
    IN  AddF(f_b[j], DivF(Mul(SubF(f_b[j + 1], f_b[j]), SubF(x, xp[j])),
                          SubF(xp[j + 1], xp[j])))

\* The buffer array f_b held at its end value at the sample point k, which
\* lies outside the q range of the buffer.
EndValueAt(f_b, k) ==
    IF Less(args.q_sample[k], args.q_buffer[1]) THEN f_b[1] ELSE f_b[Len(f_b)]

\* The point k of the result is what the buffer values i_b and e_b make of
\* the sample there.
PointSubtracted(k, i_b, e_b) ==
    /\ ret.i_subtracted[k] = NanSub(args.i_sample[k], Mul(args.alpha, i_b))
    /\ ret.err_subtracted_squared[k] =
           AddF(Mul(SampleErr[k], SampleErr[k]),
                Mul(Mul(args.alpha, args.alpha), Mul(e_b, e_b)))

\* The call returns arrays of the sample grid's length.
ReturnsSampleGrid ==
    /\ ret.raised = ""
    /\ ret.q = args.q_sample
    /\ Len(ret.i_subtracted) = Len(args.q_sample)
    /\ Len(ret.err_subtracted_squared) = Len(args.q_sample)

InWindow ==
    {k \in 1..Len(args.q_sample) :
        /\ LessEq(args.high_q_diag[1], args.q_sample[k])
        /\ LessEq(args.q_sample[k], args.high_q_diag[2])
        /\ IsFinite(ret.i_subtracted[k])}

ResidualsInWindow ==
    LET at == SelectSeq([k \in 1..Len(args.q_sample) |-> k], LAMBDA k : k \in InWindow)
    IN  [j \in 1..Len(at) |-> ret.i_subtracted[at[j]]]

ResidualMean == DivF(NpSum(ResidualsInWindow), Num(Len(ResidualsInWindow), 1))

\* |mean| < 3 * std of the residuals in the window.
MeanWithinThreeStd ==
    Less(Mul(ResidualMean, ResidualMean),
         Mul(Num(9, 1), NpVariance(ResidualsInWindow)))

\* The call with another diagnostic window returns the same arrays.
SameArraysWith(window) ==
    LET other == subtract_buffer(args.q_sample, args.i_sample, args.err_sample,
                     args.q_buffer, args.i_buffer, args.err_buffer, args.alpha,
                     window)
    IN  /\ other.raised = ""
        /\ other.i_subtracted = ret.i_subtracted
        /\ other.err_subtracted_squared = ret.err_subtracted_squared

\* The diagnostic is advisory: whatever its outcome the call returns, and
\* with the arrays it returns for any other window.
DiagnosticIsAdvisory ==
    /\ ReturnsSampleGrid
    /\ \A window \in DiagInputs : SameArraysWith(window)

\* C22 as stated: with at least 3 finite subtracted points inside the
\* high_q_diag window, high_q_check_passed is true exactly when |mean| <
\* 3 * std of those points; with fewer the check is passed with residual
\* mean 0; the diagnostic never makes the call raise or changes the arrays.
\* Violated when the residuals in the window are all 0: |mean| < 3 * std is
\* 0 < 0, and the check is reported as passed.
C22_DiagnosticAsWritten ==
    SubtractsProfiles =>
        /\ DiagnosticIsAdvisory
        /\ IF Cardinality(InWindow) >= 3
               THEN ret.high_q_check_passed = MeanWithinThreeStd
               ELSE /\ ret.high_q_check_passed
                    /\ ret.high_q_residual_mean = Num(0, 1)

\* C22 as amended: the check is passed exactly when |mean| < 3 * max(std,
\* 1e-30), which for a deviation of 0 is a mean of 0 (the decimals tried
\* are 0 or far above 3e-30).
C22_Diagnostic ==
    SubtractsProfiles =>
        /\ DiagnosticIsAdvisory
        /\ IF Cardinality(InWindow) >= 3
               THEN /\ ret.high_q_residual_mean = ResidualMean
                    /\ ret.high_q_check_passed =
                           IF NpVariance(ResidualsInWindow).n = 0
                               THEN ResidualMean.n = 0
                               ELSE MeanWithinThreeStd
               ELSE /\ ret.high_q_check_passed
                    /\ ret.high_q_residual_mean = Num(0, 1)

\* Three points in the window with the residuals 3, 1, 2: the mean 2 is
\* within 3 standard deviations and the check is passed; the arrays are
\* those of the call with a window that holds too few points.
C22_Witness ==
    /\ SubtractsProfiles
    /\ ret.raised = ""
    /\ Cardinality(InWindow) = 3
    /\ ResidualsInWindow = Whole(<<3, 1, 2>>)
    /\ ret.high_q_residual_mean = Num(2, 1)
    /\ ret.high_q_check_passed
    /\ SameArraysWith(<<Num(1, 10), Num(2, 10)>>)

\* Three points in the window with the residual 3 each: the check is not
\* passed, and the call returns all the same.
C22_CheckFailsAndReturns ==
    /\ SubtractsProfiles
    /\ ret.raised = ""
    /\ ResidualsInWindow = Whole(<<3, 3, 3>>)
    /\ ~ret.high_q_check_passed
    /\ Len(ret.i_subtracted) = Len(args.q_sample)


(***************************************************************************)
(* core/mu_calculator.py: parse_composition_string.                        *)
(*                                                                         *)
(* A composition (a dict from element to float) is the set of its items,   *)
(* [elem, value].                                                          *)
(***************************************************************************)

\* The most pairs in a composition text tried.
MaxPairs == 3

UpperChars == {UpperLetters[k] : k \in 1..Len(UpperLetters)}
LowerChars == {LowerLetters[k] : k \in 1..Len(LowerLetters)}
ValueChars == {Digits[k] : k \in 1..Len(Digits)} \cup {"."}

\* The first position from p on whose character is not in chars.
RECURSIVE SkipChars(_, _, _)
SkipChars(text, p, chars) ==
    IF p <= Len(text) /\ text[p] \in chars THEN SkipChars(text, p + 1, chars)
    ELSE p

\* _COMP_RE = ([A-Z][a-z]?)\s*:\s*([\d.]+) matched at position p: the
\* element ends at e, the colon is looked for at c, the value at v.
NoMatch == [ok |-> FALSE, elem |-> <<>>, val |-> <<>>, end |-> 0]

MatchValue(text, p, e, v) ==
    IF v <= Len(text) /\ text[v] \in ValueChars
        THEN [ok |-> TRUE, elem |-> SubSeq(text, p, e),
              val |-> SubSeq(text, v, SkipChars(text, v, ValueChars) - 1),
              end |-> SkipChars(text, v, ValueChars)]
        ELSE NoMatch

MatchColon(text, p, e, c) ==
    IF c <= Len(text) /\ text[c] = ":"
        THEN MatchValue(text, p, e, SkipChars(text, c + 1, Whitespace))
        ELSE NoMatch

MatchElement(text, p, e) ==
    MatchColon(text, p, e, SkipChars(text, e + 1, Whitespace))

COMP_RE_match(text, p) ==
    IF text[p] \notin UpperChars THEN NoMatch
    ELSE IF p < Len(text) /\ text[p + 1] \in LowerChars
        THEN MatchElement(text, p, p + 1)
    ELSE MatchElement(text, p, p)

\* _COMP_RE.findall(text), from position p on.
RECURSIVE COMP_RE_findall(_, _)
COMP_RE_findall(text, p) ==
    IF p > Len(text) THEN <<>>
    ELSE IF COMP_RE_match(text, p).ok
        THEN <<COMP_RE_match(text, p)>>
                 \o COMP_RE_findall(text, COMP_RE_match(text, p).end)
    ELSE COMP_RE_findall(text, p + 1)

\* float(val) of a text of digits and dots: ValueError unless it has one
\* dot at most and a digit.
FloatOfDecimalRaises(val) ==
    \/ Cardinality({k \in 1..Len(val) : val[k] = "."}) > 1
    \/ \A k \in 1..Len(val) : val[k] = "."

FloatOfDecimal(val) ==
    LET digits == SelectSeq(val, LAMBDA c : c # ".")
        dot == SkipChars(val, 1, ValueChars \ {"."})
    IN  Num(DigitsValue(digits), Pow10(IF dot > Len(val) THEN 0 ELSE Len(val) - dot))

\* What parse_composition_string ends with.
CompositionRaises(exception) == [raised |-> exception, comp |-> {}]
CompositionReturns(comp) == [raised |-> "", comp |-> comp]

Item(elem, value) == [elem |-> elem, value |-> value]

\* {elem: float(val) for elem, val in pairs}: the last pair of an element
\* is the one kept.
DictOfPairs(pairs) ==
    {Item(pairs[k].elem, FloatOfDecimal(pairs[k].val)) :
        k \in {j \in 1..Len(pairs) :
                  \A l \in (j + 1)..Len(pairs) : pairs[l].elem # pairs[j].elem}}

\* sum(vals)
RECURSIVE SumOfValues(_)
SumOfValues(comp) ==
    IF comp = {} THEN Num(0, 1)
    ELSE LET item == CHOOSE it \in comp : TRUE
         IN  AddF(item.value, SumOfValues(comp \ {item}))

\* {k: v / 100.0 for k, v in comp.items()}
Hundredth(comp) == {Item(it.elem, DivInt(it.value, 100)) : it \in comp}

\* Mutant of DetectPercent: the values need not all be above 1.
DetectPercent_SumOnly(comp) ==
    IF Less(AbsF(SubF(SumOfValues(comp), Num(100, 1))), Num(5, 1))
        THEN Hundredth(comp)
        ELSE comp

\* The percent-or-fraction detection (mu_calculator.py, lines 208-211).
DetectPercent(comp) ==
    IF /\ \A it \in comp : Less(Num(1, 1), it.value)
       /\ Less(AbsF(SubF(SumOfValues(comp), Num(100, 1))), Num(5, 1))
        THEN Hundredth(comp)
        ELSE comp

CompositionOfPairs(pairs) ==
    IF pairs = <<>> THEN CompositionRaises("ValueError")
    ELSE IF \E k \in 1..Len(pairs) : FloatOfDecimalRaises(pairs[k].val)
        THEN CompositionRaises("ValueError")
    ELSE CompositionReturns(DetectPercent(DictOfPairs(pairs)))

parse_composition_string(text) == CompositionOfPairs(COMP_RE_findall(text, 1))

\* The pairs the texts tried are written from: a steel in weight percent
\* and in fractions, and one in weight percent with two minor elements.
PairInputs ==
    {[elem |-> <<"F", "e">>, val |-> <<"6", "9">>, value |-> Num(69, 1)],
     [elem |-> <<"C", "r">>, val |-> <<"1", "9">>, value |-> Num(19, 1)],
     [elem |-> <<"N", "i">>, val |-> <<"1", "2">>, value |-> Num(12, 1)],
     [elem |-> <<"F", "e">>, val |-> <<"0", ".", "6", "9">>, value |-> Num(69, 100)],
     [elem |-> <<"C", "r">>, val |-> <<"0", ".", "3", "1">>, value |-> Num(31, 100)],
     [elem |-> <<"F", "e">>, val |-> <<"9", "8", ".", "5">>, value |-> Num(197, 2)],
     [elem |-> <<"C">>, val |-> <<"0", ".", "5">>, value |-> Num(1, 2)],
     [elem |-> <<"M", "n">>, val |-> <<"1">>, value |-> Num(1, 1)]}

\* "El:value, El:value, ..." of a list of pairs.
RECURSIVE TextOfPairs(_)
TextOfPairs(pairs) ==
    IF pairs = <<>> THEN <<>>
    ELSE Head(pairs).elem \o <<":">> \o Head(pairs).val
             \o (IF Len(pairs) > 1 THEN <<",", " ">> ELSE <<>>)
             \o TextOfPairs(Tail(pairs))

\* The values the pairs of a text were written with.
GivenOfPairs(pairs) ==
    [k \in 1..Len(pairs) |-> Item(pairs[k].elem, pairs[k].value)]

\* The texts tried: given is the list of items a text was written from,
\* haspair whether it holds an "El:value" pair at all.
CompositionText(text, given, haspair) ==
    [text |-> text, given |-> given, haspair |-> haspair]

WrittenTexts ==
    {CompositionText(TextOfPairs(pairs), GivenOfPairs(pairs), TRUE) :
         pairs \in ArraysUpTo(PairInputs, MaxPairs) \ {<<>>}}

OtherTexts ==
    {CompositionText(<<>>, <<>>, FALSE),
     CompositionText(<<"F", "e", "-", "0", ".", "5", "-", "C", "r", "-", "0", ".", "5">>, <<>>, FALSE),
     CompositionText(<<"I", "r", "o", "n", ":", "5">>, <<>>, FALSE),
     CompositionText(<<"f", "e", ":", "5">>, <<>>, FALSE),
     CompositionText(<<"F", "e", ":", "-", "5">>, <<>>, FALSE),
     CompositionText(<<"F", "e", ":", ".">>, <<>>, FALSE),
     CompositionText(<<"F", "e", ":", "1", ".", "2", ".", "3">>, <<>>, TRUE),
     CompositionText(<<"N", "a", "C", "l", ":", "5">>, <<>>, TRUE),
     CompositionText(<<"F", "e", " ", ":", " ", ".", "5", " ", "C", "r", ":", ".", "5">>, <<Item(<<"F", "e">>, Num(1, 2)), Item(<<"C", "r">>, Num(1, 2))>>, TRUE),
     CompositionText(<<"s", "t", "e", "e", "l", " ", "F", "e", ":", "6", "9", ".", " ", "C", "r", " ", ":", "1", "9", " ", "N", "i", ":", " ", "1", "2">>, <<Item(<<"F", "e">>, Num(69, 1)), Item(<<"C", "r">>, Num(19, 1)), Item(<<"N", "i">>, Num(12, 1))>>, TRUE)}

CallParseCompositionString ==
    /\ op = "idle"
    /\ UNCHANGED <<heap, held, disk, app>>
    /\ \E c \in WrittenTexts \cup OtherTexts :
          /\ op' = "parse_composition_string"
          /\ args' = c
          /\ ret' = parse_composition_string(c.text)

NextComposition ==
    \/ CallParseCompositionString
    \/ Return

SpecComposition == Idle /\ [][NextComposition]_vars

\* The items the text was written from name each element once.
GivenItems == {args.given[k] : k \in 1..Len(args.given)}

GivenOnce ==
    /\ args.given # <<>>
    /\ \A k \in 1..Len(args.given) : \A l \in 1..Len(args.given) :
           k # l => args.given[k].elem # args.given[l].elem

\* The text is in weight percent: positive values that sum to within 5 of
\* 100.  It is in fractions: values from 0 to 1 that sum to 1.05 at most.
SumsToAbout100 ==
    Less(AbsF(SubF(SumOfValues(GivenItems), Num(100, 1))), Num(5, 1))

InWeightPercent ==
    /\ GivenOnce
    /\ \A it \in GivenItems : it.value.n > 0
    /\ SumsToAbout100

InFractions ==
    /\ GivenOnce
    /\ \A it \in GivenItems : it.value.n >= 0 /\ LessEq(it.value, Num(1, 1))
    /\ LessEq(SumOfValues(GivenItems), Num(105, 100))

\* C23 as stated: values given as weight percent (summing to about 100)
\* are divided by 100, values given as fractions are returned unchanged, and
\* a text with no "El:value" pair raises ValueError.  Violated by a
\* composition in weight percent one of whose values is 1 or less.
C23_CompositionAsWritten ==
    op = "parse_composition_string" =>
        /\ InWeightPercent =>
               ret = CompositionReturns(Hundredth(GivenItems))
        /\ InFractions => ret = CompositionReturns(GivenItems)
        /\ ~args.haspair => ret.raised = "ValueError"

\* C23 as amended: values that are all above 1 and sum to within 5 of 100
\* are divided by 100; any other values are returned unchanged.
C23_Composition ==
    op = "parse_composition_string" =>
        /\ GivenOnce =>
               ret = CompositionReturns(
                         IF SumsToAbout100
                               /\ \A it \in GivenItems : Less(Num(1, 1), it.value)
                             THEN Hundredth(GivenItems)
                             ELSE GivenItems)
        /\ ~args.haspair => ret.raised = "ValueError"

\* "Fe:69, Cr:19, Ni:12" gives Fe 0.69, Cr 0.19 and Ni 0.12.
C23_Witness ==
    /\ op = "parse_composition_string"
    /\ args.text = <<"F", "e", ":", "6", "9", ",", " ", "C", "r", ":", "1", "9", ",", " ", "N", "i", ":", "1", "2">>
    /\ InWeightPercent
    /\ ret.raised = ""
    /\ ret.comp = {Item(<<"F", "e">>, Num(69, 100)), Item(<<"C", "r">>, Num(19, 100)), Item(<<"N", "i">>, Num(12, 100))}

\* "Fe:0.69, Cr:0.31" is returned as it is.
C23_FractionsUnchanged ==
    /\ op = "parse_composition_string"
    /\ args.text = <<"F", "e", ":", "0", ".", "6", "9", ",", " ", "C", "r", ":", "0", ".", "3", "1">>
    /\ InFractions
    /\ ret.comp = {Item(<<"F", "e">>, Num(69, 100)), Item(<<"C", "r">>, Num(31, 100))}


(***************************************************************************)
(* SASAbs.py: the run policy the application falls back on when            *)
(* saxsabs.core.execution_policy cannot be imported.                       *)
(***************************************************************************)

\* context.get("resume", False) and context.get("overwrite", False): the
\* flags as the batch put them in the context (ints, as for
\* parse_run_policy).
Context(resume, overwrite) == [resume |-> resume, overwrite |-> overwrite]

\* The mode of the SimpleNamespace (SASAbs.py, lines 4799-4803).
Namespace_mode(context) ==
    IF PyBool(context.overwrite) THEN "overwrite"
    ELSE IF PyBool(context.resume) THEN "resume-skip"
    ELSE "always-run"

\* The should_skip_existing lambda of the SimpleNamespace (lines 4804-4806).
Namespace_should_skip_existing(context, exists) ==
    exists /\ PyBool(context.resume) /\ ~PyBool(context.overwrite)

\* The SimpleNamespace of process_sample_task: its two flags (mode and
\* should_skip_existing are the two operators above).
SimpleNamespace(context) ==
    [resume_enabled |-> PyBool(context.resume),
     overwrite_existing |-> PyBool(context.overwrite)]

\* Mutant of Fallback_should_skip_all_existing: the overwrite test is missing.
Fallback_should_skip_all_existing_NoOverwriteTest(existing_flags, policy) ==
    IF existing_flags = <<>> THEN FALSE
    ELSE IF ~policy.resume_enabled THEN FALSE
    ELSE PyAll(existing_flags)

\* The should_skip_all_existing defined when the import fails (SASAbs.py,
\* lines 903-912).
Fallback_should_skip_all_existing(existing_flags, policy) ==
    IF existing_flags = <<>> THEN FALSE
    ELSE IF policy.overwrite_existing THEN FALSE
    ELSE IF ~policy.resume_enabled THEN FALSE
    ELSE PyAll(existing_flags)

\* What a policy answers: its mode, whether it skips one output that exists
\* or not, and whether it skips a sample with these outputs.
Answers(mode, skip_existing, skip_all_existing) ==
    [mode |-> mode, should_skip_existing |-> skip_existing,
     should_skip_all_existing |-> skip_all_existing]

FallbackAnswers(context, exists, existing_flags) ==
    Answers(Namespace_mode(context),
            Namespace_should_skip_existing(context, exists),
            Fallback_should_skip_all_existing(existing_flags, SimpleNamespace(context)))

PackageAnswers(policy, exists, existing_flags) ==
    Answers(RunPolicy_mode(policy),
            RunPolicy_should_skip_existing(policy, exists),
            should_skip_all_existing(existing_flags, policy))

\* The same flags are given to the fallback and to the package.
CallBothPolicies ==
    /\ op = "idle"
    /\ UNCHANGED <<heap, held, disk, app>>
    /\ \E r \in 0..2, o \in 0..2, e \in BOOLEAN, fl \in FlagLists :
            /\ op' = "run_policy"
            /\ args' = [context |-> Context(r, o), exists |-> e,
                        existing_flags |-> fl]
            /\ ret' = [fallback |-> FallbackAnswers(Context(r, o), e, fl),
                       package |-> PackageAnswers(parse_run_policy(r, o), e, fl)]

NextFallback ==
    \/ CallBothPolicies
    \/ Return

SpecFallback == Idle /\ [][NextFallback]_vars

\* C28: for every pair of flags and every list of existence flags, the
\* application's fallback policy and the package's RunPolicy give the same
\* mode, the same should_skip_existing and the same
\* should_skip_all_existing.
C28_FallbackAgrees ==
    op = "run_policy" =>
        /\ ret.fallback.mode = ret.package.mode
        /\ ret.fallback.should_skip_existing = ret.package.should_skip_existing
        /\ ret.fallback.should_skip_all_existing
               = ret.package.should_skip_all_existing

\* Both flags set and every output there: both say "overwrite" and neither
\* skips.
C28_Witness ==
    /\ op = "run_policy"
    /\ PyBool(args.context.resume)
    /\ PyBool(args.context.overwrite)
    /\ args.exists
    /\ Len(args.existing_flags) > 1
    /\ \A i \in 1..Len(args.existing_flags) : args.existing_flags[i]
    /\ ret.fallback = Answers("overwrite", FALSE, FALSE)
    /\ ret.package = Answers("overwrite", FALSE, FALSE)

\* Resuming without overwriting, every output there: both skip.
C28_BothSkip ==
    /\ op = "run_policy"
    /\ args.existing_flags = <<TRUE, TRUE>>
    /\ args.exists
    /\ ret.fallback = Answers("resume-skip", TRUE, TRUE)
    /\ ret.package = Answers("resume-skip", TRUE, TRUE)


(***************************************************************************)
(* SASAbs.py: build_output_stem_map and build_sample_output_targets.       *)
(*                                                                         *)
(* A queued file is its path: the folders above its parent (root), the     *)
(* name of its parent folder, its stem and its suffix.  Two files are the  *)
(* same path when the four agree.                                          *)
(***************************************************************************)

\* The longest queue tried.
MaxQueue == 3

QueuedFile(root, parent, stem, suffix) ==
    [root |-> root, parent |-> parent, stem |-> stem, suffix |-> suffix]

\* str(idx)
RECURSIVE StrOfInt(_)
StrOfInt(n) ==
    IF n < 10 THEN <<Digits[n + 1]>>
    ELSE StrOfInt(n \div 10) \o <<Digits[(n % 10) + 1]>>

\* name_count[stem]: the number of files of the queue with this stem.
name_count(files, stem) ==
    Cardinality({k \in 1..Len(files) : files[k].stem = stem})

\* The first idx from idx on with f"{candidate}_{idx}" not in used.
RECURSIVE FreeIdx(_, _, _)
FreeIdx(candidate, used, idx) ==
    IF (candidate \o <<"_">> \o StrOfInt(idx)) \in used
        THEN FreeIdx(candidate, used, idx + 1)
        ELSE idx

\* The candidate of a file before it is compared with the used ones.
FirstCandidate(files, p) ==
    IF name_count(files, p.stem) = 1 THEN p.stem
    ELSE p.parent \o <<"_">> \o p.stem

\* Mutant of Candidate: a candidate in use is taken as it is.
Candidate_NoSuffix(files, p, used) == FirstCandidate(files, p)

\* The candidate of a file given the candidates in use (lines 2010-2020).
Candidate(files, p, used) ==
    IF FirstCandidate(files, p) \in used
        THEN FirstCandidate(files, p) \o <<"_">>
                 \o StrOfInt(FreeIdx(FirstCandidate(files, p), used, 2))
        ELSE FirstCandidate(files, p)

\* The second loop of build_output_stem_map from file k on; out[k] is the
\* stem of files[k].
RECURSIVE StemsFrom(_, _, _, _)
StemsFrom(files, k, used, out) ==
    IF k > Len(files) THEN out
    ELSE StemsFrom(files, k + 1,
                   used \cup {Candidate(files, files[k], used)},
                   Append(out, Candidate(files, files[k], used)))

build_output_stem_map(files) == StemsFrom(files, 1, {}, <<>>)

\* mode_output_path below its save_dirs[mode], and the targets of a sample
\* for the modes without sectors.
mode_output_path(mode, out_stem) ==
    <<mode, out_stem \o (IF mode = "radial_chi" THEN <<".", "c", "h", "i">> ELSE <<".", "d", "a", "t">>)>>

build_sample_output_targets(selected_modes, out_stem) ==
    {mode_output_path(mode, out_stem) : mode \in selected_modes}

\* The files tried: stems that other files' candidates can run into.
QueueFiles ==
    {QueuedFile(root, parent, stem, <<".", "t", "i", "f">>) :
        root \in {<<"/", "u">>, <<"/", "v">>},
        parent \in {<<"x">>, <<"y">>},
        stem \in {<<"a">>, <<"x", "_", "a">>, <<"x", "_", "a", "_", "2">>}}

\* The queues of distinct files of up to n files.
RECURSIVE QueuesUpTo(_)
QueuesUpTo(n) ==
    IF n = 0 THEN {<<>>}
    ELSE QueuesUpTo(n - 1)
             \cup UNION {{Append(q, f) : f \in {g \in QueueFiles : \A k \in 1..Len(q) : q[k] # g}} :
                            q \in {r \in QueuesUpTo(n - 1) : Len(r) = n - 1}}

CallBuildOutputStemMap ==
    /\ op = "idle"
    /\ UNCHANGED <<heap, held, disk, app>>
    /\ \E files \in QueuesUpTo(MaxQueue) \ {<<>>} :
            /\ op' = "build_output_stem_map"
            /\ args' = [files |-> files]
            /\ ret' = build_output_stem_map(files)

NextStems ==
    \/ CallBuildOutputStemMap
    \/ Return

SpecStems == Idle /\ [][NextStems]_vars

\* The modes a batch can select that write one file per sample.
OutputModes == {"1d_full", "radial_chi"}

\* C30: on a queue of distinct files every file gets a different output
\* stem, and no two samples have an output target in common.
C30_StemsDistinct ==
    op = "build_output_stem_map" =>
        /\ Len(ret) = Len(args.files)
        /\ \A i \in 1..Len(ret) : \A j \in 1..Len(ret) :
               i # j =>
                   /\ ret[i] # ret[j]
                   /\ build_sample_output_targets(OutputModes, ret[i])
                          \cap build_sample_output_targets(OutputModes, ret[j]) = {}

\* Two files that share stem and parent-folder name, and a third whose stem
\* is the candidate of the first: the three stems differ.
C30_Witness ==
    /\ op = "build_output_stem_map"
    /\ Len(args.files) = 3
    /\ args.files[1].stem = args.files[2].stem
    /\ args.files[1].parent = args.files[2].parent
    /\ args.files[3].stem = <<"x", "_", "a">>
    /\ ret = <<<<"x", "_", "a">>, <<"x", "_", "a", "_", "2">>, <<"x", "_", "a", "_", "3">>>>


(***************************************************************************)
(* SASAbs.py: the solid-angle state recorded with the K factor             *)
(* (run_calibration) and its check in run_batch.                           *)
(*                                                                         *)
(* The image processing of both is left out: a calibration is given how    *)
(* far it gets and the K it computes, a batch the length of its queue and  *)
(* whether its inputs and its set-up are in order.                         *)
(***************************************************************************)

\* The K factors a calibration computes or the user types into the entry.
KFactors == {-1, 0, 2, 3}

\* "on" if apply_solid_angle else "off"
OnOff(apply_solid_angle) == IF apply_solid_angle THEN "on" ELSE "off"

\* run_calibration: it raises before K is computed (stage "inputs"), or
\* computes k_val and raises if k_val <= 0, or records k_val and the
\* solid-angle state (lines 4537-4538) and then reports, plots and saves,
\* where it may still raise (stage "report") or not (stage "done").  Every
\* exception ends in the error dialog of line 4591.
CalibrationRaises(self, stage, k_val) == stage = "inputs" \/ k_val <= 0 \/ stage = "report"

run_calibration(self, stage, k_val) ==
    IF stage = "inputs" \/ k_val <= 0 THEN self
    ELSE [self EXCEPT !.k_factor = k_val,
                      !.k_solid_angle = OnOff(self.apply_solid_angle)]

\* What run_batch comes to: the exception its dialog shows ("" if none),
\* whether the missing-state warning was logged, and the number of samples
\* handed to process_sample_task.
BatchOutcome(raised, warned, processed) ==
    [raised |-> raised, warned |-> warned, processed |-> processed]

\* run_batch from line 5217 on: the set-up (pyFAI.load, the background, the
\* consistency checks) raises or the queue is processed.
BatchAfterCheck(n_files, setup_ok, warned) ==
    IF ~setup_ok THEN BatchOutcome("Exception", warned, 0)
    ELSE BatchOutcome("", warned, n_files)

\* Mutant of SolidAngleCheck: a mismatch is logged, not raised.
SolidAngleCheck_WarnOnly(self, n_files, setup_ok) ==
    BatchAfterCheck(n_files, setup_ok, self.k_solid_angle \notin {"on", "off"})

\* run_batch, lines 5204-5215.
SolidAngleCheck(self, n_files, setup_ok) ==
    IF self.k_solid_angle \in {"on", "off"}
        THEN IF self.apply_solid_angle # (self.k_solid_angle = "on")
                 THEN BatchOutcome("ValueError", FALSE, 0)
                 ELSE BatchAfterCheck(n_files, setup_ok, FALSE)
        ELSE BatchAfterCheck(n_files, setup_ok, TRUE)

\* run_batch: the tests of lines 5179-5186 and 5200-5202 come first.
run_batch_outcome(self, n_files, inputs_ok, setup_ok) ==
    IF n_files = 0 \/ self.k_factor <= 0 \/ ~inputs_ok
        THEN BatchOutcome("ValueError", FALSE, 0)
        ELSE SolidAngleCheck(self, n_files, setup_ok)

\* The user ticks or unticks the solid-angle box (line 2309 or 2571).
ToggleSolidAngle ==
    /\ op = "idle"
    /\ UNCHANGED <<heap, held, disk>>
    /\ op' = "toggle_solid_angle"
    /\ args' = NoArgs
    /\ ret' = NoArgs
    /\ app' = [app EXCEPT !.apply_solid_angle = ~app.apply_solid_angle]

\* The user types a K factor into the entry (line 2433 or 2788).
EditKFactor ==
    /\ op = "idle"
    /\ UNCHANGED <<heap, held, disk>>
    /\ \E k \in KFactors :
            /\ op' = "edit_k_factor"
            /\ args' = [k_factor |-> k]
            /\ ret' = NoArgs
            /\ app' = [app EXCEPT !.k_factor = k]

CallRunCalibration ==
    /\ op = "idle"
    /\ UNCHANGED <<heap, held, disk>>
    /\ \E stage \in {"inputs", "report", "done"}, k_val \in KFactors :
            /\ op' = "run_calibration"
            /\ args' = [stage |-> stage, k_val |-> k_val]
            /\ ret' = [raised |-> CalibrationRaises(app, stage, k_val)]
            /\ app' = run_calibration(app, stage, k_val)

CallRunBatchChecks ==
    /\ op = "idle"
    /\ UNCHANGED <<heap, held, disk, app>>
    /\ \E n_files \in 0..MaxQueue, inputs_ok \in BOOLEAN, setup_ok \in BOOLEAN :
            /\ op' = "run_batch"
            /\ args' = [n_files |-> n_files, inputs_ok |-> inputs_ok,
                        setup_ok |-> setup_ok]
            /\ ret' = run_batch_outcome(app, n_files, inputs_ok, setup_ok)

\* Return, for the operations of the workbench.
ReturnToApp ==
    /\ op # "idle"
    /\ op' = "idle"
    /\ args' = NoArgs
    /\ ret' = NoArgs
    /\ UNCHANGED <<heap, held, disk, app>>

NextSolidAngle ==
    \/ ToggleSolidAngle
    \/ EditKFactor
    \/ CallRunCalibration
    \/ CallRunBatchChecks
    \/ ReturnToApp

SpecSolidAngle == Idle /\ [][NextSolidAngle]_vars

\* The recorded state and the batch's setting disagree.
SolidAngleDiffers ==
    /\ app.k_solid_angle \in {"on", "off"}
    /\ app.apply_solid_angle # (app.k_solid_angle = "on")

\* C29: run_batch processes no sample when the recorded solid-angle state
\* differs from the batch's setting, and processes samples only when the
\* two agree or, with a warning, when no state is recorded.
C29_BatchChecked ==
    op = "run_batch" =>
        /\ SolidAngleDiffers => ret.processed = 0 /\ ret.raised = "ValueError"
        /\ ret.processed > 0 =>
               \/ app.k_solid_angle = OnOff(app.apply_solid_angle)
               \/ app.k_solid_angle = "unknown" /\ ret.warned

\* C29: the recorded state is written only by a run_calibration that also
\* writes the K factor, as the state of the solid-angle box at that time.
C29_RecordedWithK ==
    app'.k_solid_angle # app.k_solid_angle =>
        /\ op' = "run_calibration"
        /\ app'.k_factor = args'.k_val
        /\ app'.k_solid_angle = OnOff(app.apply_solid_angle)

\* C29: the two together.
C29_SolidAngleGuard == [](C29_BatchChecked) /\ [][C29_RecordedWithK]_vars

\* K was calibrated with the correction on, the box was unticked since, and
\* the batch over a non-empty queue stops before its first sample.
C29_Witness ==
    /\ op = "run_batch"
    /\ app.k_solid_angle = "on"
    /\ ~app.apply_solid_angle
    /\ app.k_factor > 0
    /\ args.n_files > 0
    /\ args.inputs_ok
    /\ args.setup_ok
    /\ ret = BatchOutcome("ValueError", FALSE, 0)

\* No state recorded yet: the batch warns and goes on.
C29_UnknownWarns ==
    /\ op = "run_batch"
    /\ app.k_solid_angle = "unknown"
    /\ ret.warned
    /\ ret.processed = args.n_files
    /\ ret.processed > 0


(***************************************************************************)
(* SASAbs.py: process_sample_task, run_batch and run_external_1d_batch,    *)
(* as far as the queue, the existing outputs and the report go.            *)
(*                                                                         *)
(* disk is the output folders, as the set of the files in them (a file is  *)
(* <<folder, name>>, the folder being that of a mode), and the number of   *)
(* batch reports written.  The image processing is left out: a batch is    *)
(* given the files that cannot be read and the integrations that fail.     *)
(* The sector mode is left out.  The checks of run_batch before its first  *)
(* sample (lines 5179-5340) are taken to have passed.                      *)
(***************************************************************************)

\* The most batches run.
MaxRuns == 2

\* The Status of a report row: "成功", "部分成功", "已跳过", "失败".
STATUS_SUCCESS == "success"
STATUS_PARTIAL == "partial"
STATUS_SKIPPED == "skipped"
STATUS_FAILED == "failed"

NoOutputs == [outputs |-> {}, reports |-> 0]

\* The workbench is started and its output folders are empty.
AppStarted ==
    /\ op = "idle"
    /\ args = NoArgs
    /\ ret = NoArgs
    /\ heap = ImportedHeap
    /\ held = DOMAIN CallerArrays
    /\ disk = NoOutputs
    /\ app = NewApp

\* Path(fp).name
NameOf(fp) == fp.stem \o fp.suffix

\* list(dict.fromkeys(files)): the first occurrence of each file, in order.
RECURSIVE DictFromKeys(_)
DictFromKeys(files) ==
    IF files = <<>> THEN <<>>
    ELSE IF \E k \in 1..(Len(files) - 1) : files[k] = files[Len(files)]
        THEN DictFromKeys(SubSeq(files, 1, Len(files) - 1))
    ELSE Append(DictFromKeys(SubSeq(files, 1, Len(files) - 1)), files[Len(files)])

\* Path.with_suffix: the name up to its last dot, and the new suffix.
RECURSIVE LastDot(_, _)
LastDot(name, k) ==
    IF k = 0 THEN 0
    ELSE IF name[k] = "." THEN k
    ELSE LastDot(name, k - 1)

with_suffix(path, suffix) ==
    IF LastDot(path[2], Len(path[2])) = 0 THEN <<path[1], path[2] \o suffix>>
    ELSE <<path[1], SubSeq(path[2], 1, LastDot(path[2], Len(path[2])) - 1) \o suffix>>

\* save_profile_table (both writers of io/writers.py imported): the
\* exception it raises, or the file it writes.
SaveRaises(exception) == [raised |-> exception, path |-> <<>>]
Saves(path) == [raised |-> "", path |-> path]

\* save_profile_table as the existence tests take it to be: every format
\* is written to out_path.
save_profile_table_ToOutPath(out_path, x_label, output_format) ==
    IF output_format \in {"cansas_xml", "nxcansas_h5"} /\ x_label # "Q_A^-1"
        THEN SaveRaises("ValueError")
        ELSE Saves(out_path)

save_profile_table(out_path, x_label, output_format) ==
    IF output_format \in {"cansas_xml", "nxcansas_h5"} /\ x_label # "Q_A^-1"
        THEN SaveRaises("ValueError")
    ELSE IF output_format = "cansas_xml" THEN Saves(with_suffix(out_path, <<".", "x", "m", "l">>))
    ELSE IF output_format = "nxcansas_h5" THEN Saves(with_suffix(out_path, <<".", "h", "5">>))
    ELSE IF output_format = "csv" THEN Saves(with_suffix(out_path, <<".", "c", "s", "v">>))
    ELSE Saves(out_path)

\* The x axis a mode is saved with.
XLabelOf(mode) == IF mode = "radial_chi" THEN "Chi_deg" ELSE "Q_A^-1"

\* What the loop over the modes does with one mode (lines 4952-5129): the
\* output is skipped, or the integration or the saving fails, or the file
\* is written.
ModeSkipped(path) == [kind |-> "skip", path |-> path]
ModeFailed == [kind |-> "fail", path |-> <<>>]
ModeWritten(path) == [kind |-> "ok", path |-> path]

ModeSaved(saved) ==
    IF saved.raised # "" THEN ModeFailed ELSE ModeWritten(saved.path)

ModeOutcome(fpath, mode, out_path, context, outputs) ==
    IF RunPolicy_should_skip_existing(context.run_policy, out_path \in outputs)
        THEN ModeSkipped(out_path)
    ELSE IF <<fpath, mode>> \in context.failing THEN ModeFailed
    ELSE ModeSaved(save_profile_table(out_path, XLabelOf(mode), context.output_format))

\* What process_sample_task returns: its report row and, for the disk, the
\* files it wrote.
TaskResult(idx, fname, status, written) ==
    [row |-> [Index |-> idx, File |-> fname, Status |-> status], written |-> written]

CountKind(outcomes, kind) ==
    Cardinality({k \in 1..Len(outcomes) : outcomes[k].kind = kind})

\* Lines 5131-5146: the status from the numbers of modes skipped (of
\* expected_total), written and failed.
StatusOf(mode_skip, expected_total, mode_success, mode_errors) ==
    IF mode_skip = expected_total /\ mode_success = 0 /\ mode_errors = 0
        THEN STATUS_SKIPPED
    ELSE IF mode_success > 0 /\ mode_errors = 0 THEN STATUS_SUCCESS
    ELSE IF mode_success > 0 THEN STATUS_PARTIAL
    ELSE STATUS_FAILED

TaskOfModes(idx, fname, outcomes) ==
    TaskResult(idx, fname,
               StatusOf(CountKind(outcomes, "skip"), Len(outcomes),
                        CountKind(outcomes, "ok"), CountKind(outcomes, "fail")),
               {outcomes[k].path : k \in {j \in 1..Len(outcomes) : outcomes[j].kind = "ok"}})

\* [p.exists() for _, p in expected_targets]
TargetsExist(context, out_stem, outputs) ==
    [k \in 1..Len(context.selected_modes) |->
        mode_output_path(context.selected_modes[k], out_stem) \in outputs]

process_sample_task(idx, fpath, out_stem, context, outputs) ==
    IF context.selected_modes # <<>>
           /\ should_skip_all_existing(TargetsExist(context, out_stem, outputs),
                                       context.run_policy)
        THEN TaskResult(idx, NameOf(fpath), STATUS_SKIPPED, {})
    ELSE IF fpath \in context.unreadable
        THEN TaskResult(idx, NameOf(fpath), STATUS_FAILED, {})
    ELSE TaskOfModes(idx, NameOf(fpath),
             [k \in 1..Len(context.selected_modes) |->
                 ModeOutcome(fpath, context.selected_modes[k],
                             mode_output_path(context.selected_modes[k], out_stem),
                             context, outputs)])

\* The tasks in the order they complete (the queue's order when workers is
\* 1): rows takes the rows as they are appended, outputs the files in the
\* folders, written the files the batch wrote.
Ran(rows, outputs, written) == [rows |-> rows, outputs |-> outputs, written |-> written]

AfterTask(result, rows, outputs, written) ==
    Ran(Append(rows, result.row), outputs \cup result.written, written \cup result.written)

RECURSIVE RunTasks(_, _, _, _, _)
RunTasks(files, stems, completion, context, ran) ==
    IF completion = <<>> THEN ran
    ELSE RunTasks(files, stems, Tail(completion), context,
             AfterTask(process_sample_task(Head(completion) - 1, files[Head(completion)],
                                           stems[Head(completion)], context, ran.outputs),
                       ran.rows, ran.outputs, ran.written))

\* r.pop("Index", None)
PopIndex(row) == [File |-> row.File, Status |-> row.Status]

\* Mutant of SortRows: the rows stay in the order of completion.
SortRows_AsCompleted(rows) == [k \in 1..Len(rows) |-> PopIndex(rows[k])]

\* rows.sort(key=lambda x: x.get("Index", 0)) and the popping of Index.
SortRows(rows) ==
    [k \in 1..Len(rows) |->
        PopIndex(rows[CHOOSE j \in 1..Len(rows) :
                     Cardinality({l \in 1..Len(rows) :
                         \/ rows[l].Index < rows[j].Index
                         \/ rows[l].Index = rows[j].Index /\ l < j}) = k - 1])]

CountStatus(rows, status) ==
    Cardinality({k \in 1..Len(rows) : rows[k].Status = status})

\* sample_success, sample_partial, sample_skip and sample_fail (any status
\* that is none of the first three is counted as a failure).
SampleCounts(rows) ==
    [success |-> CountStatus(rows, STATUS_SUCCESS),
     partial |-> CountStatus(rows, STATUS_PARTIAL),
     skipped |-> CountStatus(rows, STATUS_SKIPPED),
     failed |-> Len(rows) - CountStatus(rows, STATUS_SUCCESS)
                   - CountStatus(rows, STATUS_PARTIAL)
                   - CountStatus(rows, STATUS_SKIPPED)]

\* What a batch leaves: its report, its counts, the files that were in the
\* output folders when it began, those that are there when it ends and those
\* it wrote.
BatchReport(rows, found, outputs, written) ==
    [rows |-> SortRows(rows), counts |-> SampleCounts(rows),
     found |-> found, outputs |-> outputs, written |-> written]

BatchOfTasks(ran, found) == BatchReport(ran.rows, found, ran.outputs, ran.written)

\* The order in which the tasks complete: that of the queue, or (thread
\* pool) the reverse.
CompletionOrder(n, workers, reversed) ==
    IF workers > 1 /\ reversed THEN [k \in 1..n |-> n + 1 - k]
    ELSE [k \in 1..n |-> k]

BatchOfFiles(files, context, outputs) ==
    BatchOfTasks(RunTasks(files, build_output_stem_map(files),
                          CompletionOrder(Len(files), context.workers, context.reversed),
                          context, Ran(<<>>, outputs, {})),
                 outputs)

\* run_batch from its queue on.
run_batch(t2_files, context, outputs) ==
    BatchOfFiles(DictFromKeys(t2_files), context, outputs)

\* One file of run_external_1d_batch (lines 3858-3988); its x axis is q.
External1dTask(idx, fp, out_path, context, outputs) ==
    IF fp \in context.unreadable
        THEN TaskResult(idx, NameOf(fp), STATUS_FAILED, {})
    ELSE IF RunPolicy_should_skip_existing(context.run_policy, out_path \in outputs)
        THEN TaskResult(idx, NameOf(fp), STATUS_SKIPPED, {})
    ELSE IF save_profile_table(out_path, "Q_A^-1", context.output_format).raised # ""
        THEN TaskResult(idx, NameOf(fp), STATUS_FAILED, {})
    ELSE TaskResult(idx, NameOf(fp), STATUS_SUCCESS,
                    {save_profile_table(out_path, "Q_A^-1", context.output_format).path})

ExternalOutPath(out_stem) == <<"external_1d_abs", out_stem \o <<".", "d", "a", "t">>>>

RECURSIVE RunExternal(_, _, _, _, _)
RunExternal(files, stems, k, context, ran) ==
    IF k > Len(files) THEN ran
    ELSE RunExternal(files, stems, k + 1, context,
             AfterTask(External1dTask(k - 1, files[k], ExternalOutPath(stems[k]),
                                      context, ran.outputs),
                       ran.rows, ran.outputs, ran.written))

ExternalOfFiles(files, context, outputs) ==
    BatchOfTasks(RunExternal(files, build_output_stem_map(files), 1, context,
                             Ran(<<>>, outputs, {})),
                 outputs)

\* run_external_1d_batch from its queue on.
run_external_1d_batch(t3_files, context, outputs) ==
    ExternalOfFiles(DictFromKeys(t3_files), context, outputs)

\* The files queued: two images.
FileA == QueuedFile(<<"/", "u">>, <<"x">>, <<"a">>, <<".", "t", "i", "f">>)
FileB == QueuedFile(<<"/", "u">>, <<"x">>, <<"b">>, <<".", "t", "i", "f">>)

\* The queues tried: one file, two files, and a file queued again after
\* another one.
BatchQueues == {<<FileA>>, <<FileB, FileA>>, <<FileA, FileB, FileA>>}

\* What can go wrong: no file, or file b cannot be read, or the full-ring
\* integration of file a fails.
Faults ==
    {[unreadable |-> {}, failing |-> {}],
     [unreadable |-> {FileB}, failing |-> {}],
     [unreadable |-> {}, failing |-> {<<FileA, "1d_full">>}]}

OutputFormats == {"tsv", "csv", "cansas_xml", "nxcansas_h5"}

ModeSelections == {<<"1d_full">>, <<"1d_full", "radial_chi">>}

\* The context of a batch.
BatchContext(fault, run_policy, output_format, selected_modes, workers, reversed) ==
    [unreadable |-> fault.unreadable, failing |-> fault.failing,
     run_policy |-> run_policy, output_format |-> output_format,
     selected_modes |-> selected_modes, workers |-> workers, reversed |-> reversed]

BatchContexts ==
    {BatchContext(fault, run_policy, output_format, selected_modes, w[1], w[2]) :
        fault \in Faults, run_policy \in Policies, output_format \in OutputFormats,
        selected_modes \in ModeSelections,
        w \in {<<1, FALSE>>, <<2, TRUE>>}}

ExternalContexts ==
    {BatchContext(fault, run_policy, output_format, <<>>, 1, FALSE) :
        fault \in {f \in Faults : f.failing = {}}, run_policy \in Policies,
        output_format \in OutputFormats}

CallRunBatch ==
    /\ op = "idle"
    /\ disk.reports < MaxRuns
    /\ UNCHANGED <<heap, held, app>>
    /\ \E t2_files \in BatchQueues, context \in BatchContexts :
            /\ op' = "run_batch"
            /\ args' = [files |-> t2_files, context |-> context]
            /\ ret' = run_batch(t2_files, context, disk.outputs)
            /\ disk' = [outputs |-> ret'.outputs,
                        reports |-> disk.reports + 1]

CallRunExternal1dBatch ==
    /\ op = "idle"
    /\ disk.reports < MaxRuns
    /\ UNCHANGED <<heap, held, app>>
    /\ \E t3_files \in BatchQueues, context \in ExternalContexts :
            /\ op' = "run_external_1d_batch"
            /\ args' = [files |-> t3_files, context |-> context]
            /\ ret' = run_external_1d_batch(t3_files, context, disk.outputs)
            /\ disk' = [outputs |-> ret'.outputs,
                        reports |-> disk.reports + 1]

NextBatch ==
    \/ CallRunBatch
    \/ CallRunExternal1dBatch
    \/ ReturnToApp

SpecBatch == AppStarted /\ [][NextBatch]_vars

\* The queue without its repeated files, and the output stem of each.
UniqueFiles == DictFromKeys(args.files)

StemOf(k) == build_output_stem_map(UniqueFiles)[k]

\* The out_path of the k-th file for a mode of the 2-D batch (for the
\* external batch there is one, whatever the mode).
OutPathOf(k, mode) ==
    IF op = "run_batch" THEN mode_output_path(mode, StemOf(k))
    ELSE ExternalOutPath(StemOf(k))

OutputModesOf == IF op = "run_batch" THEN args.context.selected_modes ELSE <<"1d_full">>

\* The file a run in the selected format writes for the k-th file and a
\* mode, and whether every output of the k-th file was in the folders when
\* the batch began.
OutputOf(k, mode) ==
    save_profile_table(OutPathOf(k, mode), XLabelOf(mode), args.context.output_format)

WrittenEarlier(k) ==
    \A m \in 1..Len(OutputModesOf) :
        /\ OutputOf(k, OutputModesOf[m]).raised = ""
        /\ OutputOf(k, OutputModesOf[m]).path \in ret.found

\* The k-th file has no fault of its own.
Sound(k) ==
    /\ UniqueFiles[k] \notin args.context.unreadable
    /\ \A mode \in {"1d_full", "radial_chi"} :
           <<UniqueFiles[k], mode>> \notin args.context.failing

Resuming ==
    /\ args.context.run_policy.resume_enabled
    /\ ~args.context.run_policy.overwrite_existing

\* C24 as stated: with resume on and overwrite off, a file that can be
\* processed and whose outputs (in the selected format: tsv, csv, canSAS XML
\* or NXcanSAS HDF5) were in the folders when the batch began is reported as
\* skipped, and the batch writes none of the files it found.  Violated for
\* csv, XML and HDF5.
C24_ExistingOutputsSkipped ==
    (op \in {"run_batch", "run_external_1d_batch"} /\ Resuming) =>
        /\ \A k \in 1..Len(UniqueFiles) :
               (Sound(k) /\ WrittenEarlier(k)) => ret.rows[k].Status = STATUS_SKIPPED
        /\ ret.written \cap ret.found = {}

\* What holds of resuming: with the tab-separated format a file whose
\* outputs are there is skipped and no file found is written again.
C24_TsvOutputsSkipped ==
    (op \in {"run_batch", "run_external_1d_batch"} /\ Resuming
         /\ args.context.output_format = "tsv") =>
        /\ \A k \in 1..Len(UniqueFiles) :
               (Sound(k) /\ WrittenEarlier(k)) => ret.rows[k].Status = STATUS_SKIPPED
        /\ ret.written \cap ret.found = {}

\* A resumed csv batch over a file whose a.csv is there writes a.csv again.
C24_CsvWrittenAgain ==
    /\ op = "run_batch"
    /\ Resuming
    /\ args.context.output_format = "csv"
    /\ args.context.selected_modes = <<"1d_full">>
    /\ Len(UniqueFiles) = 1
    /\ WrittenEarlier(1)
    /\ ret.rows[1].Status = STATUS_SUCCESS
    /\ <<"1d_full", <<"a", ".", "c", "s", "v">>>> \in ret.written \cap ret.found

\* C25: the report of run_batch has one row per unique queued file, in
\* queue order, whatever fails and in whatever order the tasks complete;
\* the four counts add up to the number of unique files; a file that
\* cannot be read gets a failed row (or a skipped one, when its outputs are
\* there and it is not read at all), and every file without a fault is
\* processed: in the tab-separated format its outputs are in the folders
\* afterwards and its row says success or skipped.
C25_FailureIsolated ==
    op = "run_batch" =>
        /\ Len(ret.rows) = Len(UniqueFiles)
        /\ Len(UniqueFiles) = Cardinality({args.files[k] : k \in 1..Len(args.files)})
        /\ \A k \in 1..Len(UniqueFiles) :
               /\ ret.rows[k].File = NameOf(UniqueFiles[k])
               /\ ret.rows[k].Status
                      \in {STATUS_SUCCESS, STATUS_PARTIAL, STATUS_SKIPPED, STATUS_FAILED}
               /\ UniqueFiles[k] \in args.context.unreadable =>
                      ret.rows[k].Status \in {STATUS_FAILED, STATUS_SKIPPED}
               /\ (Sound(k) /\ args.context.output_format = "tsv") =>
                      /\ ret.rows[k].Status \in {STATUS_SUCCESS, STATUS_SKIPPED}
                      /\ \A m \in 1..Len(args.context.selected_modes) :
                             OutPathOf(k, args.context.selected_modes[m]) \in ret.outputs
        /\ ret.counts.success + ret.counts.partial + ret.counts.skipped
               + ret.counts.failed = Len(UniqueFiles)
        /\ ret.counts = SampleCounts(ret.rows)

\* Thread pool, the task of b done first, b unreadable, a queued twice: the
\* report has the row of a, a success, and then that of b, a failure.
C25_Witness ==
    /\ op = "run_batch"
    /\ args.context.workers > 1
    /\ args.context.reversed
    /\ Len(args.files) > Len(UniqueFiles)
    /\ Len(UniqueFiles) = 2
    /\ UniqueFiles[2] \in args.context.unreadable
    /\ ret.rows = <<[File |-> <<"a", ".", "t", "i", "f">>, Status |-> STATUS_SUCCESS],
                    [File |-> <<"b", ".", "t", "i", "f">>, Status |-> STATUS_FAILED]>>
    /\ ret.counts = [success |-> 1, partial |-> 0, skipped |-> 0, failed |-> 1]

=============================================================================
